---- MODULE Spec2Model ----
EXTENDS Integers, Sequences, FiniteSets, TLC

(***************************************************************************)
(* Model of the Descope MCP example server: the configuration store and    *)
(* its HTTP handlers (config-store.ts and its draft, config.ts and         *)
(* the in-memory-fallback draft) and the tool handlers of create-server.    *)
(*                                                                          *)
(* The repository holds several drafts of the same modules.  One process    *)
(* loads one draft of each; `deployed' names the drafts of this process.    *)
(***************************************************************************)

VARIABLES
    deployed,        \* which draft of the handler / store module this process runs
    envProjectId,    \* process.env.DESCOPE_PROJECT_ID
    envBaseUrl,      \* process.env.DESCOPE_BASE_URL
    blob,            \* content of the blob store under the configuration key
    inMemoryConfig,  \* in-memory fallback storage
    blobsAvailable,  \* "is Netlify Blobs available" flag
    obs,             \* what the callers have observed: last update, resolves around it
    inv,             \* the tool invocation in progress
    calls,           \* network requests issued by the current tool invocation
    outcome,         \* what the current tool invocation delivered
    tasks,           \* the asynchronous activations in flight: requests being
                     \* served, calls of the store functions
    serverConnected, \* the flag of connectServer
    log              \* the tasks that assigned inMemoryConfig, in that order

vars == <<deployed, envProjectId, envBaseUrl, blob, inMemoryConfig,
          blobsAvailable, obs, inv, calls, outcome, tasks, serverConnected, log>>

asyncVars == <<tasks, serverConnected, log>>

configVars == <<blob, inMemoryConfig, blobsAvailable, obs>>
toolVars == <<inv, calls, outcome>>

----------------------------------------------------------------------------
(* JavaScript values.  Every value is a record of the same shape so that    *)
(* values of different JavaScript types can be compared.                    *)

Str(x) == [k |-> "string", s |-> x, n |-> 0]
Num(i) == [k |-> "number", s |-> "", n |-> i]
Bool(b) == [k |-> "boolean", s |-> "", n |-> IF b THEN 1 ELSE 0]
Null == [k |-> "null", s |-> "", n |-> 0]
Undefined == [k |-> "undefined", s |-> "", n |-> 0]
\* the key is not in the object at all (reading it yields undefined)
Absent == [k |-> "absent", s |-> "", n |-> 0]

\* JavaScript truthiness, as used by `a || b', `a && b' and `!a'
Truthy(v) ==
    \/ v.k = "string" /\ v.s # ""
    \/ v.k = "number" /\ v.n # 0
    \/ v.k = "boolean" /\ v.n = 1

\* a || b
Or(a, b) == IF Truthy(a) THEN a ELSE b

\* typeof v !== "string"
NotString(v) == v.k # "string"

Fields == {"projectId", "baseUrl"}

\* obj.f : a missing key reads as undefined
Prop(obj, f) == IF obj[f] = Absent THEN Undefined ELSE obj[f]

\* { ...a, ...b } : every own key of b (even one holding undefined) overrides a
Spread(a, b) == [f \in Fields |-> IF b[f] # Absent THEN b[f] ELSE a[f]]

\* JSON.parse(JSON.stringify(obj)) : keys holding undefined are dropped
JSONStringify(obj) == [f \in Fields |-> IF obj[f] = Undefined THEN Absent ELSE obj[f]]

\* String.prototype.trim on the strings of the model
Trim(x) == IF x = "  " THEN "" ELSE IF x = " U1 " THEN "U1" ELSE x

EmptyObject == [projectId |-> Absent, baseUrl |-> Absent]

----------------------------------------------------------------------------
(* The blob store.  A key holds nothing, text that is not JSON, or the     *)
(* JSON text of an object.                                                  *)

NoBlob == [kind |-> "none", obj |-> EmptyObject]
Garbage == [kind |-> "garbage", obj |-> EmptyObject]
Json(o) == [kind |-> "json", obj |-> o]

\* how a call on the store can fail: not at all, with the error getStore
\* raises outside Netlify, or with any other error
StoreFaults == {"ok", "MissingBlobsEnvironmentError", "other"}

----------------------------------------------------------------------------
(* config-store.ts                                                          *)

DEFAULT_BASE_URL == "https://api.descope.com"

DEFAULT_CONFIG == [baseUrl |-> Str(DEFAULT_BASE_URL), projectId |-> Undefined]

\* getDescopeConfig(): b is the store content, getThrows whether getStore or
\* store.get throws.  Unparsable content makes store.get(type json) throw.
getDescopeConfig(b, getThrows) ==
    IF getThrows \/ b.kind = "garbage" THEN DEFAULT_CONFIG
    ELSE IF b.kind = "none" THEN DEFAULT_CONFIG
    ELSE Spread(DEFAULT_CONFIG, b.obj)

\* getProjectId(): config.projectId || process.env.DESCOPE_PROJECT_ID
getProjectId(b, getThrows, envPid) ==
    Or(Prop(getDescopeConfig(b, getThrows), "projectId"), envPid)

\* getBaseUrl(): config.baseUrl || process.env.DESCOPE_BASE_URL || DEFAULT_CONFIG.baseUrl
getBaseUrl(b, getThrows, envUrl) ==
    Or(Or(Prop(getDescopeConfig(b, getThrows), "baseUrl"), envUrl),
       DEFAULT_CONFIG.baseUrl)

\* the object setDescopeConfig hands to store.set
mergedConfig(b, config, getThrows) ==
    Spread(getDescopeConfig(b, getThrows), config)

\* setDescopeConfig(config) of config-store.ts: reads the current config,
\* merges, writes; any error is logged and thrown again.
\* Result: the store content afterwards, what was handed to store.set, and
\* the error thrown ("ok" when none).
setDescopeConfig(b, config, getThrows, setFault) ==
    IF setFault = "ok"
    THEN [blob |-> Json(JSONStringify(mergedConfig(b, config, getThrows))),
          wrote |-> TRUE, thrown |-> "ok"]
    ELSE [blob |-> b, wrote |-> FALSE, thrown |-> setFault]

\* setDescopeConfig(config) of the draft that does not throw
setDescopeConfigQuiet(b, config, getThrows, setFault) ==
    [setDescopeConfig(b, config, getThrows, setFault) EXCEPT !.thrown = "ok"]

----------------------------------------------------------------------------
(* config.ts: the HTTP handlers                                             *)

StatusOK == 200
StatusAccepted == 202
StatusBadRequest == 400
StatusServerError == 500

\* an HTTP response: status code, the error text of the body ("" when the body
\* carries none), the configuration object in the body and whether the body
\* carries _warning; storage is the "storage" member of the bodies that have one
Response(code, err, cfg, warn) ==
    [statusCode |-> code, error |-> err, config |-> cfg, warning |-> warn,
     storage |-> ""]

\* a request body: text JSON.parse rejects, or the JSON text of an object
InvalidBody == [kind |-> "invalid", obj |-> EmptyObject]
ObjectBody(o) == [kind |-> "object", obj |-> o]

\* no fault on any store call of a handler
NoFaults == [read |-> FALSE, set |-> "ok", reread |-> FALSE]

\* handleGet(): 200 with JSON.stringify(getDescopeConfig())
handleGet(b, getThrows) ==
    Response(StatusOK, "", JSONStringify(getDescopeConfig(b, getThrows)), FALSE)

\* the validation of handlePut: "" when the body passes, else the error text
validatePut(config) ==
    IF Truthy(Prop(config, "baseUrl")) /\ NotString(Prop(config, "baseUrl"))
    THEN "baseUrl must be a string"
    ELSE IF Truthy(Prop(config, "projectId")) /\ NotString(Prop(config, "projectId"))
    THEN "projectId must be a string"
    ELSE ""

\* the catch block of handlePut in config.ts
putCatch(b, thrown, f) ==
    IF thrown = "MissingBlobsEnvironmentError"
    THEN Response(StatusAccepted,
                  "Netlify Blobs not configured. Configuration cannot be persisted.",
                  JSONStringify(getDescopeConfig(b, f.reread)), FALSE)
    ELSE Response(StatusServerError, "Failed to update configuration", EmptyObject, FALSE)

\* handlePut(body) of config.ts; quiet: the store module is the draft whose
\* setDescopeConfig does not throw; f: the faults of the store calls.
\* Result: the store content afterwards, whether store.set was carried out,
\* and the response.
handlePut(b, body, quiet, f) ==
    IF body.kind = "invalid"
    THEN [blob |-> b, wrote |-> FALSE, response |-> putCatch(b, "other", f)]
    ELSE IF validatePut(body.obj) # ""
    THEN [blob |-> b, wrote |-> FALSE,
          response |-> Response(StatusBadRequest, validatePut(body.obj), EmptyObject, FALSE)]
    ELSE LET r == IF quiet THEN setDescopeConfigQuiet(b, body.obj, f.read, f.set)
                           ELSE setDescopeConfig(b, body.obj, f.read, f.set)
         IN IF r.thrown # "ok"
            THEN [blob |-> r.blob, wrote |-> r.wrote, response |-> putCatch(b, r.thrown, f)]
            ELSE [blob |-> r.blob, wrote |-> r.wrote,
                  response |-> Response(StatusOK, "",
                                  JSONStringify(getDescopeConfig(r.blob, f.reread)), TRUE)]

----------------------------------------------------------------------------
(* The draft of config-store.ts with the in-memory fallback                 *)
(* (loadConfig / saveConfig, inMemoryConfig, blobsAvailable)                *)

DEFAULT_DESCOPE_BASE_URL == "https://api.descope.com"
DEFAULT_PROJECT_ID == ""

\* inMemoryConfig is null (NoBlob) or holds a configuration object (Json(o))

\* { projectId: src.projectId || env || DEFAULT_PROJECT_ID,
\*   baseUrl: src.baseUrl || env || DEFAULT_DESCOPE_BASE_URL }
withFallbacks(src, envPid, envUrl) ==
    [projectId |-> Or(Or(Prop(src, "projectId"), envPid), Str(DEFAULT_PROJECT_ID)),
     baseUrl |-> Or(Or(Prop(src, "baseUrl"), envUrl), Str(DEFAULT_DESCOPE_BASE_URL))]

\* the final fallback to the environment variables
fromEnv(envPid, envUrl) ==
    [projectId |-> Or(envPid, Str(DEFAULT_PROJECT_ID)),
     baseUrl |-> Or(envUrl, Str(DEFAULT_DESCOPE_BASE_URL))]

\* loadConfig without its try/catch around the store read: a read that throws
\* or a blob that does not parse rejects the call
loadConfigUncaught(avail, b, mem, getThrows, envPid, envUrl) ==
    IF avail /\ (getThrows \/ b.kind = "garbage")
    THEN [config |-> EmptyObject, blobsAvailable |-> avail, source |-> "thrown"]
    ELSE IF avail /\ b.kind = "json"
    THEN [config |-> withFallbacks(b.obj, envPid, envUrl), blobsAvailable |-> avail,
          source |-> "blobs"]
    ELSE [config |-> IF mem.kind = "json" THEN withFallbacks(mem.obj, envPid, envUrl)
                     ELSE fromEnv(envPid, envUrl),
          blobsAvailable |-> avail,
          source |-> IF mem.kind = "json" THEN "memory" ELSE "env"]

\* loadConfig trying the store on every call, whatever the flag says, and
\* setting the flag by how that call went
loadConfigIgnoringFlag(avail, b, mem, getThrows, envPid, envUrl) ==
    IF ~getThrows /\ b.kind = "json"
    THEN [config |-> withFallbacks(b.obj, envPid, envUrl), blobsAvailable |-> TRUE,
          source |-> "blobs"]
    ELSE [config |-> IF mem.kind = "json" THEN withFallbacks(mem.obj, envPid, envUrl)
                     ELSE fromEnv(envPid, envUrl),
          blobsAvailable |-> ~(getThrows \/ b.kind = "garbage"),
          source |-> IF mem.kind = "json" THEN "memory" ELSE "env"]

\* loadConfig(): avail is blobsAvailable (configStore is non-null exactly when
\* the flag was initialised true), b the store content, mem inMemoryConfig.
\* Result: the configuration returned and the value of the flag afterwards.
loadConfig(avail, b, mem, getThrows, envPid, envUrl) ==
    LET blobFailed == avail /\ (getThrows \/ b.kind = "garbage")
        fromMemory == IF mem.kind = "json"
                      THEN withFallbacks(mem.obj, envPid, envUrl)
                      ELSE fromEnv(envPid, envUrl)
    IN IF avail /\ ~blobFailed /\ b.kind = "json"
       THEN [config |-> withFallbacks(b.obj, envPid, envUrl), blobsAvailable |-> avail,
             source |-> "blobs"]
       ELSE [config |-> fromMemory,
             blobsAvailable |-> IF blobFailed THEN FALSE ELSE avail,
             source |-> IF mem.kind = "json" THEN "memory" ELSE "env"]

\* saveConfig keeping in memory the fields of the earlier configuration that
\* the new one leaves empty
saveConfigMerging(avail, b, mem, config, setFault) ==
    LET kept == IF mem.kind = "json"
                THEN [projectId |-> Or(config.projectId, mem.obj.projectId),
                      baseUrl |-> Or(config.baseUrl, mem.obj.baseUrl)]
                ELSE config
    IN IF avail /\ setFault = "ok"
       THEN [blob |-> Json(JSONStringify(config)), inMemoryConfig |-> Json(kept),
             blobsAvailable |-> avail,
             result |-> [storage |-> "netlify-blobs", success |-> TRUE]]
       ELSE [blob |-> b, inMemoryConfig |-> Json(kept),
             blobsAvailable |-> FALSE,
             result |-> [storage |-> "in-memory", success |-> TRUE]]

\* saveConfig trying the store again on every call, whatever the flag says
saveConfigRetrying(avail, b, mem, config, setFault) ==
    IF setFault = "ok"
    THEN [blob |-> Json(JSONStringify(config)), inMemoryConfig |-> Json(config),
          blobsAvailable |-> TRUE,
          result |-> [storage |-> "netlify-blobs", success |-> TRUE]]
    ELSE [blob |-> b, inMemoryConfig |-> Json(config),
          blobsAvailable |-> FALSE,
          result |-> [storage |-> "in-memory", success |-> TRUE]]

\* saveConfig(config).  Result: store content, inMemoryConfig and flag
\* afterwards, and the { storage, success } object returned.
saveConfig(avail, b, mem, config, setFault) ==
    IF avail /\ setFault = "ok"
    THEN [blob |-> Json(JSONStringify(config)), inMemoryConfig |-> Json(config),
          blobsAvailable |-> avail,
          result |-> [storage |-> "netlify-blobs", success |-> TRUE]]
    ELSE [blob |-> b, inMemoryConfig |-> Json(config),
          blobsAvailable |-> FALSE,
          result |-> [storage |-> "in-memory", success |-> TRUE]]

----------------------------------------------------------------------------
(* express-mcp-server.ts: loadConfig, saveConfig and the /api/config routes *)

\* loadConfig() of express-mcp-server.ts
loadConfigExpress(b, getThrows, envPid, envUrl) ==
    IF ~getThrows /\ b.kind = "json"
    THEN withFallbacks(b.obj, envPid, envUrl)
    ELSE fromEnv(envPid, envUrl)

\* saveConfig(config) of express-mcp-server.ts: logs and throws again
saveConfigExpress(b, config, setFault) ==
    IF setFault = "ok"
    THEN [blob |-> Json(JSONStringify(config)), wrote |-> TRUE, thrown |-> "ok"]
    ELSE [blob |-> b, wrote |-> FALSE, thrown |-> setFault]

\* the configuration object POST /api/config builds from a validated body
postedConfig(body) ==
    [projectId |-> Str(Trim(body.projectId.s)),
     baseUrl |-> Or(Str(Trim(body.baseUrl.s)), Str(DEFAULT_DESCOPE_BASE_URL))]

\* POST /api/config
postConfig(b, body, setFault) ==
    IF NotString(Prop(body, "projectId")) \/ NotString(Prop(body, "baseUrl"))
    THEN [blob |-> b, wrote |-> FALSE,
          response |-> Response(StatusBadRequest, "Invalid configuration data",
                                EmptyObject, FALSE)]
    ELSE LET r == saveConfigExpress(b, postedConfig(body), setFault)
         IN IF r.thrown # "ok"
            THEN [blob |-> r.blob, wrote |-> FALSE,
                  response |-> Response(StatusServerError, "Failed to save configuration",
                                        EmptyObject, FALSE)]
            ELSE [blob |-> r.blob, wrote |-> TRUE,
                  response |-> [Response(StatusOK, "", postedConfig(body), FALSE)
                                   EXCEPT !.storage = "netlify-blobs"]]

\* GET /api/config
getConfig(b, getThrows, envPid, envUrl) ==
    [Response(StatusOK, "", loadConfigExpress(b, getThrows, envPid, envUrl), FALSE)
        EXCEPT !.storage = "netlify-blobs"]

----------------------------------------------------------------------------
(* create-server.ts and its draft: helpers of the tool handlers             *)

\* "=".repeat(n)
repeatEq(n) == IF n = 0 THEN "" ELSE IF n = 1 THEN "=" ELSE IF n = 2 THEN "==" ELSE "==="

\* payload + "=".repeat((4 - (payload.length % 4)) % 4)
paddedPayload(payload) == payload \o repeatEq((4 - (Len(payload) % 4)) % 4)

\* Buffer.from(x, "base64").toString("utf-8") on the texts of the model; the
\* decoder stops at the padding, so a text decodes alike with and without it;
\* any other text decodes to bytes that are no JSON and hold no colon
base64Decode(x) ==
    CASE x \in {"eyJzdWIiOiJ1c2VyLTEifQ==", "eyJzdWIiOiJ1c2VyLTEifQ"} -> "{\"sub\":\"user-1\"}"
      [] x = "eyJzdWIiOiJ1c2VyLTEyMyJ9" -> "{\"sub\":\"user-123\"}"
      [] x = "eyJuYW1lIjoieCJ9" -> "{\"name\":\"x\"}"
      [] x \in {"eyJzdWIiOiIifQ==", "eyJzdWIiOiIifQ"} -> "{\"sub\":\"\"}"
      [] x \in {"bnVsbA==", "bnVsbA"} -> "null"
      [] x \in {"cHJvajE6YXBwMQ==", "cHJvajE6YXBwMQ"} -> "proj1:app1"
      [] x \in {"OmFwcDE=", "OmFwcDE"} -> ":app1"
      [] x = "cHJvajE6" -> "proj1:"
      [] x \in {"cHJvajE=", "cHJvajE"} -> "proj1"
      [] OTHER -> "?"

\* JSON.parse(text) followed by the read of .sub: what the read yields, or
\* that one of the two throws
parsedSub(text) ==
    CASE text = "{\"sub\":\"user-1\"}" -> [throws |-> FALSE, sub |-> Str("user-1")]
      [] text = "{\"sub\":\"user-123\"}" -> [throws |-> FALSE, sub |-> Str("user-123")]
      [] text = "{\"name\":\"x\"}" -> [throws |-> FALSE, sub |-> Undefined]
      [] text = "{\"sub\":\"\"}" -> [throws |-> FALSE, sub |-> Str("")]
      [] OTHER -> [throws |-> TRUE, sub |-> Undefined]

\* decoded.split(":") on the texts of the model
splitColon(text) ==
    CASE text = "proj1:app1" -> <<"proj1", "app1">>
      [] text = ":app1" -> <<"", "app1">>
      [] text = "proj1:" -> <<"proj1", "">>
      [] OTHER -> <<text>>

\* an error thrown (McpError with its code, or a plain Error) or no error
NoError == [thrown |-> "", code |-> "", message |-> ""]
McpError(code, message) == [thrown |-> "McpError", code |-> code, message |-> message]
PlainError(message) == [thrown |-> "Error", code |-> "", message |-> message]

\* getSubFromJwt asking for two segments at least, not for three exactly
getSubFromJwtAtLeastTwo(jwt) ==
    IF Len(jwt) < 2 \/ parsedSub(base64Decode(paddedPayload(jwt[2]))).throws
           \/ ~Truthy(parsedSub(base64Decode(paddedPayload(jwt[2]))).sub)
    THEN [error |-> McpError("InvalidRequest", "Invalid JWT format or missing sub claim"),
          sub |-> Undefined]
    ELSE [error |-> NoError, sub |-> parsedSub(base64Decode(paddedPayload(jwt[2]))).sub]

\* getSubFromJwt without the test of decodedPayload.sub
getSubFromJwtAnyPayload(jwt) ==
    IF Len(jwt) # 3 \/ parsedSub(base64Decode(paddedPayload(jwt[2]))).throws
    THEN [error |-> McpError("InvalidRequest", "Invalid JWT format or missing sub claim"),
          sub |-> Undefined]
    ELSE [error |-> NoError, sub |-> parsedSub(base64Decode(paddedPayload(jwt[2]))).sub]

\* getSubFromJwt(jwt): jwt is the token as its dot-separated segments
getSubFromJwt(jwt) ==
    LET decoded == parsedSub(base64Decode(paddedPayload(jwt[2])))
    IN IF Len(jwt) # 3 \/ decoded.throws \/ ~Truthy(decoded.sub)
       THEN [error |-> McpError("InvalidRequest", "Invalid JWT format or missing sub claim"),
             sub |-> Undefined]
       ELSE [error |-> NoError, sub |-> decoded.sub]

\* decodeClientId testing the projectId alone
decodeClientIdProjectOnly(clientId) ==
    IF splitColon(base64Decode(clientId))[1] = ""
    THEN [error |-> McpError("InvalidRequest", "Invalid client ID format"),
          projectId |-> "", appId |-> ""]
    ELSE [error |-> NoError, projectId |-> splitColon(base64Decode(clientId))[1],
          appId |-> IF Len(splitColon(base64Decode(clientId))) >= 2
                    THEN splitColon(base64Decode(clientId))[2] ELSE ""]

\* decodeClientId(clientId)
decodeClientId(clientId) ==
    LET parts == splitColon(base64Decode(clientId))
        projectId == parts[1]
        appId == IF Len(parts) >= 2 THEN parts[2] ELSE ""
    IN IF projectId = "" \/ appId = ""
       THEN [error |-> McpError("InvalidRequest", "Invalid client ID format"),
             projectId |-> "", appId |-> ""]
       ELSE [error |-> NoError, projectId |-> projectId, appId |-> appId]

\* the token as the string it is
RECURSIVE joinDots(_)
joinDots(segs) ==
    IF Len(segs) = 0 THEN ""
    ELSE IF Len(segs) = 1 THEN segs[1]
    ELSE segs[1] \o "." \o joinDots(Tail(segs))

\* string conversion of `${v}' and "..." + v
toText(v) ==
    CASE v.k = "string" -> v.s
      [] v.k = "number" -> ToString(v.n)
      [] v.k = "boolean" -> IF v.n = 1 THEN "true" ELSE "false"
      [] v.k = "null" -> "null"
      [] OTHER -> "undefined"

EXCHANGE_URL == "https://asaf.descope.team/v1/mgmt/outbound/app/user/token/latest"

\* a network request: fetch(url, { headers: { Authorization }, body })
Fetch(url, authorization, userId) ==
    [url |-> url, authorization |-> authorization, userId |-> userId]

\* the request of the token exchange
exchangeRequest(envPid, token, userId) ==
    Fetch(EXCHANGE_URL, "Bearer " \o toText(envPid) \o ":" \o joinDots(token), toText(userId))

\* what a tool handler delivers: an error thrown or a result with one text
NoOutcome == [kind |-> "none", error |-> NoError, text |-> "", isError |-> FALSE]
Thrown(e) == [kind |-> "thrown", error |-> e, text |-> "", isError |-> FALSE]
Content(text) == [kind |-> "result", error |-> NoError, text |-> text, isError |-> FALSE]

EmptyTokenData == [token |-> Absent, accessToken |-> Absent]

\* no response received (yet) from the token exchange, from GitHub
NoExchangeResponse == [status |-> 0, statusText |-> "", body |-> EmptyTokenData]
NoGithubResponse ==
    [status |-> 0, statusText |-> "", body |-> [kind |-> "none", repos |-> << >>,
                                                name |-> Undefined]]

\* no invocation yet
Idle == [pc |-> "idle", tool |-> "", param |-> "", authInfo |-> [present |-> FALSE,
         scopes |-> {}, token |-> << >>, clientId |-> ""],
         response |-> NoExchangeResponse, githubResponse |-> NoGithubResponse,
         latitude |-> 0, longitude |-> 0, nwsResponses |-> << >>]

\* authorizeAndExchange with the scope looked at only once the request of the
\* token exchange is out
authorizeAfterFetch(draft, scope, authInfo, envPid) ==
    IF getSubFromJwt(authInfo.token).error # NoError
    THEN [error |-> getSubFromJwt(authInfo.token).error, requests |-> << >>]
    ELSE IF ~authInfo.present \/ scope \notin authInfo.scopes
    THEN [error |-> McpError("InvalidRequest",
                             "Insufficient permissions: '" \o scope \o "' scope required"),
          requests |-> <<exchangeRequest(envPid, authInfo.token,
                                         getSubFromJwt(authInfo.token).sub)>>]
    ELSE [error |-> NoError,
          requests |-> <<exchangeRequest(envPid, authInfo.token,
                                         getSubFromJwt(authInfo.token).sub)>>]

\* the handlers up to their first fetch: the scope check, the decoding of the
\* client id (create-server.ts only) and of the token.
\* Result: the error thrown, or the request issued.
authorizeAndExchange(draft, scope, authInfo, envPid) ==
    IF ~authInfo.present \/ scope \notin authInfo.scopes
    THEN [error |-> McpError("InvalidRequest",
                             "Insufficient permissions: '" \o scope \o "' scope required"),
          requests |-> << >>]
    ELSE IF draft = "create-server.ts" /\ decodeClientId(authInfo.clientId).error # NoError
    THEN [error |-> decodeClientId(authInfo.clientId).error, requests |-> << >>]
    ELSE IF getSubFromJwt(authInfo.token).error # NoError
    THEN [error |-> getSubFromJwt(authInfo.token).error, requests |-> << >>]
    ELSE [error |-> NoError,
          requests |-> <<exchangeRequest(envPid, authInfo.token,
                                         getSubFromJwt(authInfo.token).sub)>>]

\* the access token the handler reads from the body of the exchange response:
\* tokenData.accessToken in create-server.ts, tokenData.token.accessToken in
\* its draft (reading .accessToken of a missing token throws a TypeError)
accessTokenOf(draft, tokenData) ==
    IF draft = "create-server.ts"
    THEN [error |-> NoError, value |-> Prop(tokenData, "accessToken")]
    ELSE IF tokenData.token = Absent
    THEN [error |-> PlainError("TypeError"), value |-> Undefined]
    ELSE [error |-> NoError, value |-> tokenData.token]

\* Response.ok of fetch: the status is in the range 200-299
responseOk(response) == response.status >= 200 /\ response.status <= 299

\* afterExchange taking only the 5xx answers for failures
afterExchangeOnlyServerErrors(draft, url, response) ==
    IF response.status >= 500
    THEN [error |-> McpError("InternalError",
                             "Failed to fetch outbound token: " \o ToString(response.status)
                                 \o " " \o response.statusText),
          requests |-> << >>]
    ELSE IF accessTokenOf(draft, response.body).error # NoError
    THEN [error |-> accessTokenOf(draft, response.body).error, requests |-> << >>]
    ELSE [error |-> NoError,
          requests |-> <<Fetch(url, "Bearer " \o toText(accessTokenOf(draft, response.body).value),
                               "")>>]

\* afterExchange with the GitHub request sent before response.ok is looked at
afterExchangeFetchFirst(draft, url, response) ==
    IF accessTokenOf(draft, response.body).error # NoError
    THEN [error |-> accessTokenOf(draft, response.body).error, requests |-> << >>]
    ELSE IF ~responseOk(response)
    THEN [error |-> McpError("InternalError",
                             "Failed to fetch outbound token: " \o ToString(response.status)
                                 \o " " \o response.statusText),
          requests |-> <<Fetch(url, "Bearer " \o toText(accessTokenOf(draft, response.body).value),
                               "")>>]
    ELSE [error |-> NoError,
          requests |-> <<Fetch(url, "Bearer " \o toText(accessTokenOf(draft, response.body).value),
                               "")>>]

\* the handlers once the token exchange has answered, up to the GitHub fetch
afterExchange(draft, url, response) ==
    IF ~responseOk(response)
    THEN [error |-> McpError("InternalError",
                             "Failed to fetch outbound token: " \o ToString(response.status)
                                 \o " " \o response.statusText),
          requests |-> << >>]
    ELSE IF accessTokenOf(draft, response.body).error # NoError
    THEN [error |-> accessTokenOf(draft, response.body).error, requests |-> << >>]
    ELSE [error |-> NoError,
          requests |-> <<Fetch(url, "Bearer " \o toText(accessTokenOf(draft, response.body).value),
                               "")>>]

\* the five lines of one repository
formatRepo(repo) ==
    "Name: " \o repo.name \o "\n"
        \o "Description: " \o toText(Or(repo.description, Str("No description"))) \o "\n"
        \o "URL: " \o repo.html_url \o "\n"
        \o "Stars: " \o ToString(repo.stargazers_count) \o "\n"
        \o "Forks: " \o ToString(repo.forks_count)

RECURSIVE reposText(_)
reposText(repos) ==
    IF Len(repos) = 0 THEN ""
    ELSE IF Len(repos) = 1 THEN formatRepo(repos[1])
    ELSE formatRepo(repos[1]) \o "\n\n" \o reposText(Tail(repos))

\* readReposResult without the case of the empty array and without the
\* fallback text
readReposResultNoEmptyCase(username, response) ==
    IF response.body.kind = "text" THEN Thrown(PlainError("SyntaxError"))
    ELSE IF response.body.kind # "array"
    THEN Thrown(McpError("InternalError", "Unexpected response format from GitHub API"))
    ELSE Content(reposText(response.body.repos))

\* readReposResult without the Array.isArray test: what is no array maps to
\* nothing
readReposResultNoArrayTest(username, response) ==
    IF response.body.kind = "text" THEN Thrown(PlainError("SyntaxError"))
    ELSE IF response.body.kind # "array" \/ Len(response.body.repos) = 0
    THEN Content("No repositories found for user " \o username \o ".")
    ELSE Content(reposText(response.body.repos))

\* read-repos once GitHub has answered
readReposResult(username, response) ==
    IF response.body.kind = "text" THEN Thrown(PlainError("SyntaxError"))
    ELSE IF response.body.kind # "array"
    THEN Thrown(McpError("InternalError", "Unexpected response format from GitHub API"))
    ELSE IF Len(response.body.repos) = 0
    THEN Content("No repositories found for user " \o username \o ".")
    ELSE Content(toText(Or(Str(reposText(response.body.repos)),
                           Str("No repositories found for user " \o username \o "."))))

\* create-gh-repo once GitHub has answered
createRepoResult(response) ==
    IF ~responseOk(response)
    THEN Thrown(McpError("InternalError",
                         "Failed to create repository: " \o ToString(response.status)
                             \o " " \o response.statusText))
    ELSE IF response.body.kind = "text" THEN Thrown(PlainError("SyntaxError"))
    ELSE Content("Repository '" \o toText(response.body.name) \o "' created successfully!")

\* ----- tools without token exchange (src/unnamed/part_000) -----

\* a result marked isError (the 403 code and the WWW-Authenticate header of
\* the object are not part of a tool result and are left out)
ErrorContent(text) == [Content(text) EXCEPT !.isError = TRUE]

\* the echo tool
echo(authInfo, input) ==
    IF ~authInfo.present \/ "app:custom" \notin authInfo.scopes
    THEN ErrorContent("You are not authorized to use this tool. "
                          \o "Please ensure you have the 'app:custom' scope.")
    ELSE Content("You said: " \o input)

NWS_API_BASE == "https://api.weather.gov"

\* Coordinates are numbers of at most four decimals, held as integers of
\* ten-thousandths.  pad4(m): the four decimals of toFixed(4)
pad4(m) ==
    IF m < 10 THEN "000" \o ToString(m)
    ELSE IF m < 100 THEN "00" \o ToString(m)
    ELSE IF m < 1000 THEN "0" \o ToString(m)
    ELSE ToString(m)

abs(n) == IF n < 0 THEN 0 - n ELSE n

\* Number.prototype.toFixed(4)
toFixed4(n) ==
    (IF n < 0 THEN "-" ELSE "") \o ToString(abs(n) \div 10000) \o "."
        \o pad4(abs(n) % 10000)

\* the decimals of Number.prototype.toString: no trailing zero
RECURSIVE decimals(_, _)
decimals(m, width) ==
    IF width = 0 THEN ""
    ELSE IF m % 10 = 0 THEN decimals(m \div 10, width - 1)
    ELSE decimals(m \div 10, width - 1) \o ToString(m % 10)

\* `${n}` of a number
numberText(n) ==
    (IF n < 0 THEN "-" ELSE "") \o ToString(abs(n) \div 10000)
        \o (IF abs(n) % 10000 = 0 THEN "" ELSE "." \o decimals(abs(n) % 10000, 4))

pointsUrl(latitude, longitude) ==
    NWS_API_BASE \o "/points/" \o toFixed4(latitude) \o "," \o toFixed4(longitude)

\* what makeNWSRequest returns when it returns null
NoData == [kind |-> "null", forecast |-> Undefined, periods |-> << >>]

\* makeNWSRequest(url) once fetch has settled: a rejected fetch, a status
\* outside 200-299 and a body that is no JSON all end in the catch block
makeNWSRequest(response) ==
    IF response.failed \/ ~responseOk(response) \/ response.body.kind # "json"
    THEN NoData
    ELSE response.body

\* get-forecast once the points request has settled
forecastAfterPoints(latitude, longitude, pointsData) ==
    IF pointsData = NoData
    THEN [outcome |-> Content("Failed to retrieve grid point data for coordinates: "
                                  \o numberText(latitude) \o ", " \o numberText(longitude)
                                  \o ". This location may not be supported by the NWS API "
                                  \o "(only US locations are supported)."),
          requests |-> << >>]
    ELSE IF ~Truthy(pointsData.forecast)
    THEN [outcome |-> Content("Failed to get forecast URL from grid point data"),
          requests |-> << >>]
    ELSE [outcome |-> NoOutcome,
          requests |-> <<Fetch(pointsData.forecast.s, "", "")>>]

\* the five lines of one forecast period
formatPeriod(period) ==
    toText(Or(period.name, Str("Unknown"))) \o ":" \o "\n"
        \o "Temperature: " \o toText(Or(period.temperature, Str("Unknown"))) \o "°"
        \o toText(Or(period.temperatureUnit, Str("F"))) \o "\n"
        \o "Wind: " \o toText(Or(period.windSpeed, Str("Unknown"))) \o " "
        \o toText(Or(period.windDirection, Str(""))) \o "\n"
        \o toText(Or(period.shortForecast, Str("No forecast available"))) \o "\n"
        \o "---"

RECURSIVE periodsText(_)
periodsText(periods) ==
    IF Len(periods) = 0 THEN ""
    ELSE IF Len(periods) = 1 THEN formatPeriod(periods[1])
    ELSE formatPeriod(periods[1]) \o "\n" \o periodsText(Tail(periods))

\* get-forecast once the forecast request has settled
forecastResult(latitude, longitude, forecastData) ==
    IF forecastData = NoData THEN Content("Failed to retrieve forecast data")
    ELSE IF Len(forecastData.periods) = 0 THEN Content("No forecast periods available")
    ELSE Content("Forecast for " \o numberText(latitude) \o ", " \o numberText(longitude)
                     \o ":\n\n" \o periodsText(forecastData.periods))


----------------------------------------------------------------------------
(* The drafts a process can run, and the inputs of the model                *)

\* config.ts over config-store.ts or over its draft
BlobDrafts ==
    {[handler |-> "config.ts", store |-> "config-store.ts"],
     [handler |-> "config.ts", store |-> "part_001"]}

\* the store module with the in-memory fallback, called directly
FallbackDraft == [handler |-> "none", store |-> "part_004"]

\* express-mcp-server.ts with its own loadConfig / saveConfig
ExpressDraft == [handler |-> "express-mcp-server.ts", store |-> "express-mcp-server.ts"]

\* create-server.ts and its draft: the tool handlers
ToolDrafts ==
    {[handler |-> "create-server.ts", store |-> "none"],
     [handler |-> "part_000", store |-> "none"]}

ConfigDrafts == BlobDrafts \cup {FallbackDraft, ExpressDraft}

\* process.env.X is undefined or a non-empty string
EnvProjectIds == {Undefined, Str("PE")}
EnvBaseUrls == {Undefined, Str("UE")}

\* the request bodies of PUT /config: text that is not JSON, one field or
\* both, a field holding an empty string, a falsy value that is no string
\* (0, null) or a truthy value that is no string (true)
Bodies ==
    {InvalidBody,
     ObjectBody([projectId |-> Absent, baseUrl |-> Str("U1")]),
     ObjectBody([projectId |-> Str("P2"), baseUrl |-> Absent]),
     ObjectBody([projectId |-> Absent, baseUrl |-> Str("")]),
     ObjectBody([projectId |-> Num(0), baseUrl |-> Absent]),
     ObjectBody([projectId |-> Absent, baseUrl |-> Null]),
     ObjectBody([projectId |-> Absent, baseUrl |-> Bool(TRUE)])}

\* the DescopeConfig objects handed to saveConfig: both fields are strings
SavedConfigs ==
    {[projectId |-> Str(p), baseUrl |-> Str(u)] : p \in {"", "P2"}, u \in {"", "U1"}}

\* the bodies posted to /api/config
PostedBodies ==
    {[projectId |-> p, baseUrl |-> u] :
        p \in {Absent, Str("P2"), Num(0)},
        u \in {Absent, Str("  "), Str(" U1 "), Null}}

\* the faults of the store calls of one request: the reads fail alike
Faults == {[read |-> t, set |-> sf, reread |-> t] : t \in BOOLEAN, sf \in StoreFaults}

\* what the authentication middleware hands to a tool handler
NoAuthInfo == [present |-> FALSE, scopes |-> {}, token |-> << >>, clientId |-> ""]

Tokens ==
    {<<"hdr", "eyJzdWIiOiJ1c2VyLTEifQ", "sig">>,
     <<"hdr", "eyJzdWIiOiJ1c2VyLTEyMyJ9", "sig">>,
     <<"hdr", "eyJzdWIiOiJ1c2VyLTEifQ">>,
     <<"hdr">>,
     <<"hdr", "eyJzdWIiOiJ1c2VyLTEifQ", "sig", "more">>,
     <<"hdr", "eyJuYW1lIjoieCJ9", "sig">>,
     <<"hdr", "bm90IGpzb24", "sig">>}

ClientIds == {"cHJvajE6YXBwMQ==", "OmFwcDE=", "cHJvajE6", "cHJvajE="}

AuthInfos ==
    {NoAuthInfo} \cup
    {[present |-> TRUE, scopes |-> sc, token |-> t, clientId |-> c] :
        sc \in SUBSET {"app:read", "app:write"}, t \in Tokens, c \in ClientIds}

Usernames == {"alice", "bob"}

\* the tools a draft registers (of those with an outbound call)
toolsOf(draft) ==
    IF draft = "create-server.ts" THEN {"read-repos"} ELSE {"read-repos", "create-gh-repo"}

requiredScope(tool) == IF tool = "read-repos" THEN "app:read" ELSE "app:write"

githubUrl(tool, param) ==
    IF tool = "read-repos" THEN "https://api.github.com/users/" \o param \o "/repos"
    ELSE "https://api.github.com/user/repos"

\* the answers of the token-exchange endpoint: the body is tokenData, whose
\* token member is missing (Absent), has no accessToken (Undefined) or has one
ExchangeResponses ==
    {[status |-> 200, statusText |-> "OK", body |-> b] :
        b \in {[token |-> Str("tok-abc"), accessToken |-> Absent],
               [token |-> Absent, accessToken |-> Str("tok-flat")],
               [token |-> Undefined, accessToken |-> Absent],
               [token |-> Absent, accessToken |-> Absent]}}
    \cup {[status |-> 401, statusText |-> "Unauthorized", body |-> EmptyTokenData],
          [status |-> 500, statusText |-> "Internal Server Error", body |-> EmptyTokenData]}

Repo1 == [name |-> "r1", description |-> Str("first"), html_url |-> "https://github.com/a/r1",
          stargazers_count |-> 3, forks_count |-> 0]
Repo2 == [name |-> "r2", description |-> Null, html_url |-> "https://github.com/a/r2",
          stargazers_count |-> 0, forks_count |-> 1]

\* the answers of the GitHub API: a JSON array of repositories, a JSON object
\* (with a name or without), or text that is no JSON
GithubBodies ==
    {[kind |-> "array", repos |-> r, name |-> Undefined] :
        r \in {<< >>, <<Repo1>>, <<Repo1, Repo2>>}}
    \cup {[kind |-> "object", repos |-> << >>, name |-> Str("r1")],
          [kind |-> "object", repos |-> << >>, name |-> Undefined],
          [kind |-> "text", repos |-> << >>, name |-> Undefined]}

GithubResponses ==
    {[status |-> 200, statusText |-> "OK", body |-> b] : b \in GithubBodies}
    \cup {[status |-> 404, statusText |-> "Not Found", body |-> b] : b \in GithubBodies}

\* what the middleware hands to the echo tool: nothing, the scope of another
\* tool, the scope of echo
EchoAuthInfos ==
    {NoAuthInfo} \cup
    {[present |-> TRUE, scopes |-> sc, token |-> <<"hdr", "eyJzdWIiOiJ1c2VyLTEifQ", "sig">>,
      clientId |-> "cHJvajE6YXBwMQ=="] : sc \in {{"app:read"}, {"app:custom"}}}

EchoInputs == {"hi"}

\* (latitude, longitude) in ten-thousandths: 40, -100.5 and 37.7749, -122.4194
Coordinates == {<<400000, -1005000>>, <<377749, -1224194>>}

FORECAST_URL == "https://api.weather.gov/gridpoints/TOP/31,80/forecast"

JsonData(forecast, periods) == [kind |-> "json", forecast |-> forecast, periods |-> periods]
TextData == [kind |-> "text", forecast |-> Undefined, periods |-> << >>]

\* the answers to the points request: fetch rejects, 404 with a JSON problem
\* document, 200 with a body that is no JSON, with properties that lack the
\* forecast URL, with the forecast URL
PointsResponses ==
    {[failed |-> TRUE, status |-> 0, body |-> NoData],
     [failed |-> FALSE, status |-> 404, body |-> JsonData(Undefined, << >>)],
     [failed |-> FALSE, status |-> 200, body |-> TextData],
     [failed |-> FALSE, status |-> 200, body |-> JsonData(Undefined, << >>)],
     [failed |-> FALSE, status |-> 200, body |-> JsonData(Str(FORECAST_URL), << >>)]}

Period1 == [name |-> Str("Tonight"), temperature |-> Num(55), temperatureUnit |-> Str("F"),
            windSpeed |-> Str("5 mph"), windDirection |-> Str("SW"),
            shortForecast |-> Str("Clear")]
Period2 == [name |-> Undefined, temperature |-> Num(0), temperatureUnit |-> Undefined,
            windSpeed |-> Undefined, windDirection |-> Undefined,
            shortForecast |-> Undefined]

\* the answers to the forecast request
ForecastResponses ==
    {[failed |-> TRUE, status |-> 0, body |-> NoData],
     [failed |-> FALSE, status |-> 500, body |-> TextData],
     [failed |-> FALSE, status |-> 200, body |-> JsonData(Undefined, << >>)],
     [failed |-> FALSE, status |-> 200, body |-> JsonData(Undefined, <<Period1>>)],
     [failed |-> FALSE, status |-> 200, body |-> JsonData(Undefined, <<Period1, Period2>>)]}

\* what the store may hold when the process starts
InitialBlobs ==
    {NoBlob, Garbage, Json([projectId |-> Str("P1"), baseUrl |-> Absent])}

----------------------------------------------------------------------------
(* What the callers of the configuration API have seen                      *)

NoResolve == [via |-> "none", config |-> EmptyObject, threwP |-> FALSE, threwB |-> FALSE,
              source |-> ""]

NoResult == [storage |-> "", success |-> FALSE]

\* what of a response tells the caller how the call went: all but the
\* configuration object
Outcome(resp) == [resp EXCEPT !.config = EmptyObject]

NoUpdate ==
    [op |-> "none", body |-> InvalidBody, readThrew |-> FALSE, setFault |-> "ok",
     response |-> Response(0, "", EmptyObject, FALSE), result |-> NoResult,
     wrote |-> FALSE]

\* update: the last update call; resolved: the last resolve call; stale: the
\* last resolve came before the last update; fresh: the process was restarted
\* after the last update
NoObs == [update |-> NoUpdate, resolved |-> NoResolve, stale |-> FALSE, fresh |-> FALSE]

\* the store faults a handlePut call really met: a call that was not made
\* cannot fail
metFaults(body, quiet, f) ==
    IF body.kind = "invalid" \/ validatePut(body.obj) # "" THEN NoFaults
    ELSE IF f.set = "ok" \/ quiet \/ f.set = "MissingBlobsEnvironmentError" THEN f
    ELSE [f EXCEPT !.reread = FALSE]

Init ==
    /\ deployed \in ConfigDrafts \cup ToolDrafts
    /\ envProjectId \in EnvProjectIds
    /\ envBaseUrl \in EnvBaseUrls
    /\ blob \in IF deployed \in ConfigDrafts THEN InitialBlobs ELSE {NoBlob}
    /\ inMemoryConfig = NoBlob
    /\ blobsAvailable \in IF deployed = FallbackDraft THEN BOOLEAN ELSE {TRUE}
    /\ obs = NoObs
    /\ inv = Idle
    /\ calls = << >>
    /\ outcome = NoOutcome
    /\ tasks = << >>
    /\ serverConnected = FALSE
    /\ log = << >>

\* what is kept of a resolve once an update has followed it: the projectId
\* and whether the store read behind it threw
Before(r) ==
    IF r.via = "none" THEN NoResolve
    ELSE [NoResolve EXCEPT !.via = "before", !.threwP = r.threwP,
                           !.config = [projectId |-> r.config.projectId, baseUrl |-> Absent]]

Resolved(r) == obs' = [obs EXCEPT !.resolved = r, !.stale = FALSE]

Updated(u) ==
    obs' = [update |-> u, resolved |-> Before(obs.resolved),
            stale |-> obs.resolved.via # "none", fresh |-> FALSE]

\* GET /config
HandleGet ==
    /\ deployed \in BlobDrafts
    /\ \E t \in BOOLEAN :
         Resolved([via |-> "handleGet", config |-> handleGet(blob, t).config,
                   threwP |-> t, threwB |-> t, source |-> ""])
    /\ UNCHANGED <<asyncVars, deployed, envProjectId, envBaseUrl, blob, inMemoryConfig,
                   blobsAvailable, toolVars>>

\* getProjectId() and getBaseUrl() (the store answers both reads alike)
GetEffective ==
    /\ deployed \in BlobDrafts
    /\ \E t \in BOOLEAN :
         Resolved([via |-> "getters",
                   config |-> [projectId |-> getProjectId(blob, t, envProjectId),
                               baseUrl |-> getBaseUrl(blob, t, envBaseUrl)],
                   threwP |-> t, threwB |-> t, source |-> ""])
    /\ UNCHANGED <<asyncVars, deployed, envProjectId, envBaseUrl, blob, inMemoryConfig,
                   blobsAvailable, toolVars>>

\* PUT /config
HandlePut ==
    /\ deployed \in BlobDrafts
    /\ \E body \in Bodies, f \in Faults :
         LET quiet == deployed.store = "part_001"
             r == handlePut(blob, body, quiet, f)
         IN /\ blob' = r.blob
            /\ Updated([op |-> "handlePut", body |-> body,
                        readThrew |-> metFaults(body, quiet, f).read,
                        setFault |-> metFaults(body, quiet, f).set,
                        response |-> Outcome(r.response), result |-> NoResult,
                        wrote |-> r.wrote])
    /\ UNCHANGED <<asyncVars, deployed, envProjectId, envBaseUrl, inMemoryConfig,
                   blobsAvailable, toolVars>>

\* loadConfig() of the in-memory-fallback draft
LoadConfig ==
    /\ deployed = FallbackDraft
    /\ \E t \in BOOLEAN :
         LET r == loadConfig(blobsAvailable, blob, inMemoryConfig, t,
                             envProjectId, envBaseUrl)
         IN /\ blobsAvailable' = r.blobsAvailable
            /\ Resolved([via |-> "loadConfig", config |-> r.config,
                         threwP |-> blobsAvailable /\ t, threwB |-> blobsAvailable /\ t,
                         source |-> r.source])
    /\ UNCHANGED <<asyncVars, deployed, envProjectId, envBaseUrl, blob, inMemoryConfig, toolVars>>

\* saveConfig(config) of the in-memory-fallback draft
SaveConfig ==
    /\ deployed = FallbackDraft
    /\ \E config \in SavedConfigs, sf \in StoreFaults :
         LET r == saveConfig(blobsAvailable, blob, inMemoryConfig, config, sf)
         IN /\ blob' = r.blob
            /\ inMemoryConfig' = r.inMemoryConfig
            /\ blobsAvailable' = r.blobsAvailable
            /\ Updated([op |-> "saveConfig", body |-> ObjectBody(config),
                        readThrew |-> FALSE,
                        setFault |-> IF blobsAvailable THEN sf ELSE "ok",
                        response |-> Response(0, "", EmptyObject, FALSE),
                        result |-> r.result,
                        wrote |-> blobsAvailable /\ sf = "ok"])
    /\ UNCHANGED <<asyncVars, deployed, envProjectId, envBaseUrl, toolVars>>

\* GET /api/config of express-mcp-server.ts
GetConfig ==
    /\ deployed = ExpressDraft
    /\ \E t \in BOOLEAN :
         Resolved([via |-> "getConfig",
                   config |-> getConfig(blob, t, envProjectId, envBaseUrl).config,
                   threwP |-> t, threwB |-> t, source |-> ""])
    /\ UNCHANGED <<asyncVars, deployed, envProjectId, envBaseUrl, blob, inMemoryConfig,
                   blobsAvailable, toolVars>>

\* POST /api/config of express-mcp-server.ts
PostConfig ==
    /\ deployed = ExpressDraft
    /\ \E body \in PostedBodies, sf \in StoreFaults :
         LET r == postConfig(blob, body, sf)
             valid == ~NotString(Prop(body, "projectId")) /\ ~NotString(Prop(body, "baseUrl"))
         IN /\ blob' = r.blob
            /\ Updated([op |-> "postConfig", body |-> ObjectBody(body),
                        readThrew |-> FALSE,
                        setFault |-> IF valid THEN sf ELSE "ok",
                        response |-> Outcome(r.response), result |-> NoResult,
                        wrote |-> r.wrote])
    /\ UNCHANGED <<asyncVars, deployed, envProjectId, envBaseUrl, inMemoryConfig,
                   blobsAvailable, toolVars>>

\* the process ends and a fresh one starts: the module state of the draft that
\* has some is initialised again, the store keeps its content
Restart ==
    /\ deployed = FallbackDraft
    /\ obs.update.op # "none" /\ ~obs.fresh
    /\ inMemoryConfig' = NoBlob
    /\ blobsAvailable' \in IF deployed = FallbackDraft THEN BOOLEAN ELSE {TRUE}
    /\ obs' = [obs EXCEPT !.resolved = NoResolve, !.stale = FALSE, !.fresh = TRUE]
    /\ UNCHANGED <<asyncVars, deployed, envProjectId, envBaseUrl, blob, toolVars>>

\* a tool is invoked: the handler runs up to its first await (the handlers
\* keep nothing from one invocation to the next: a behaviour follows one)
Invoke ==
    /\ deployed \in ToolDrafts
    /\ inv.pc = "idle"
    /\ \E tool \in toolsOf(deployed.handler), a \in AuthInfos, param \in Usernames :
         LET r == authorizeAndExchange(deployed.handler, requiredScope(tool), a, envProjectId)
         IN /\ calls' = r.requests
            /\ outcome' = IF r.error # NoError THEN Thrown(r.error) ELSE NoOutcome
            /\ inv' = [Idle EXCEPT !.pc = IF r.error # NoError THEN "done" ELSE "exchange",
                                    !.tool = tool, !.param = param, !.authInfo = a]
    /\ UNCHANGED <<asyncVars, deployed, envProjectId, envBaseUrl, configVars>>

\* the token-exchange endpoint answers
ExchangeResponds ==
    /\ inv.pc = "exchange"
    /\ \E response \in ExchangeResponses :
         LET r == afterExchange(deployed.handler, githubUrl(inv.tool, inv.param), response)
         IN /\ calls' = calls \o r.requests
            /\ outcome' = IF r.error # NoError THEN Thrown(r.error) ELSE NoOutcome
            /\ inv' = [inv EXCEPT !.pc = IF r.error # NoError THEN "done" ELSE "github",
                                   !.response = response]
    /\ UNCHANGED <<asyncVars, deployed, envProjectId, envBaseUrl, configVars>>

\* the GitHub API answers
GithubResponds ==
    /\ inv.pc = "github"
    /\ \E response \in GithubResponses :
         /\ outcome' = IF inv.tool = "read-repos"
                       THEN readReposResult(inv.param, response)
                       ELSE createRepoResult(response)
         /\ inv' = [inv EXCEPT !.pc = "done", !.githubResponse = response]
    /\ UNCHANGED <<asyncVars, deployed, envProjectId, envBaseUrl, configVars, calls>>

\* a call of the echo tool
Echo ==
    /\ deployed.handler = "part_000"
    /\ inv.pc = "idle"
    /\ \E a \in EchoAuthInfos, input \in EchoInputs :
         /\ outcome' = echo(a, input)
         /\ inv' = [Idle EXCEPT !.pc = "done", !.tool = "echo", !.param = input,
                                !.authInfo = a]
    /\ UNCHANGED <<asyncVars, deployed, envProjectId, envBaseUrl, configVars, calls>>

\* a call of get-forecast, up to its first request
GetForecast ==
    /\ deployed \in ToolDrafts
    /\ inv.pc = "idle"
    /\ \E c \in Coordinates :
         /\ calls' = <<Fetch(pointsUrl(c[1], c[2]), "", "")>>
         /\ inv' = [Idle EXCEPT !.pc = "points", !.tool = "get-forecast",
                                !.latitude = c[1], !.longitude = c[2]]
    /\ outcome' = NoOutcome
    /\ UNCHANGED <<asyncVars, deployed, envProjectId, envBaseUrl, configVars>>

\* the points request settles
PointsResponds ==
    /\ inv.pc = "points"
    /\ \E response \in PointsResponses :
         LET r == forecastAfterPoints(inv.latitude, inv.longitude, makeNWSRequest(response))
         IN /\ calls' = calls \o r.requests
            /\ outcome' = r.outcome
            /\ inv' = [inv EXCEPT !.pc = IF r.outcome # NoOutcome THEN "done" ELSE "forecast",
                                   !.nwsResponses = <<response>>]
    /\ UNCHANGED <<asyncVars, deployed, envProjectId, envBaseUrl, configVars>>

\* the forecast request settles
ForecastResponds ==
    /\ inv.pc = "forecast"
    /\ \E response \in ForecastResponses :
         /\ outcome' = forecastResult(inv.latitude, inv.longitude, makeNWSRequest(response))
         /\ inv' = [inv EXCEPT !.pc = "done",
                               !.nwsResponses = Append(inv.nwsResponses, response)]
    /\ UNCHANGED <<asyncVars, deployed, envProjectId, envBaseUrl, configVars, calls>>

Next ==
    \/ Invoke
    \/ ExchangeResponds
    \/ GithubResponds
    \/ Echo
    \/ GetForecast
    \/ PointsResponds
    \/ ForecastResponds
    \/ HandleGet
    \/ GetEffective
    \/ HandlePut
    \/ LoadConfig
    \/ SaveConfig
    \/ GetConfig
    \/ PostConfig
    \/ Restart

Spec == Init /\ [][Next]_vars

----------------------------------------------------------------------------
(* express-mcp-server.ts and its draft part_002: requests served            *)
(* concurrently by one process                                              *)

MaxTasks == 2
TaskIds == 1..MaxTasks

\* the draft of the server with the static provider
Part002Draft == [handler |-> "part_002", store |-> "none"]
ServerDrafts == {ExpressDraft, Part002Draft}

WELL_KNOWN == "/.well-known/oauth-authorization-server"

Layer(method, path, fn) == [method |-> method, path |-> path, fn |-> fn]

\* the routes registered with the /mcp handlers ahead of the auth middleware
StackHandlersFirst(draft) ==
    <<Layer("OPTIONS", "*", "cors"),
      Layer("POST", "/mcp", "postMcp"),
      Layer("GET", "/mcp", "methodNotAllowed"),
      Layer("DELETE", "/mcp", "methodNotAllowed"),
      Layer("*", "/mcp", IF draft = "part_002" THEN "descopeMcpBearerAuth"
                         ELSE "dynamicMcpAuth"),
      Layer("GET", WELL_KNOWN, "oauthAuthorizationServer")>>

\* the middleware and routes of the app that answer or guard the requests of
\* the model, in the order of their registration
Stack(draft) ==
    <<Layer("OPTIONS", "*", "cors"),
      Layer("*", "/mcp", IF draft = "part_002" THEN "descopeMcpBearerAuth"
                         ELSE "dynamicMcpAuth"),
      Layer("POST", "/mcp", "postMcp"),
      Layer("GET", "/mcp", "methodNotAllowed"),
      Layer("DELETE", "/mcp", "methodNotAllowed"),
      Layer("GET", WELL_KNOWN, "oauthAuthorizationServer")>>

matches(layer, req) ==
    /\ layer.method = "*" \/ layer.method = req.method
    /\ layer.path = "*" \/ layer.path = req.path

\* the router: the first layer after layer i that matches the request, 0 if
\* there is none
RECURSIVE dispatch(_, _, _)
dispatch(stack, i, req) ==
    IF i >= Len(stack) THEN 0
    ELSE IF matches(stack[i + 1], req) THEN i + 1
    ELSE dispatch(stack, i + 1, req)

JSONRPC_INTERNAL == -32603
JSONRPC_SERVER == -32000

\* a response: status, JSON-RPC error code (0: none), message, Location
Reply(status, code, message, location) ==
    [status |-> status, code |-> code, message |-> message, location |-> location]
NoReply == Reply(0, 0, "", "")

\* dynamicMcpAuth once loadConfig has settled: building the provider throws
\* or not; the bearer middleware of the library answers 401 itself or calls
\* next()
dynamicMcpAuth(buildThrows, bearer) ==
    IF buildThrows
    THEN [next |-> FALSE,
          reply |-> Reply(500, JSONRPC_INTERNAL, "Authentication configuration error", "")]
    ELSE IF bearer # "valid"
    THEN [next |-> FALSE, reply |-> Reply(401, 0, "Unauthorized", "")]
    ELSE [next |-> TRUE, reply |-> NoReply]

\* descopeMcpBearerAuth(provider) of the draft, the provider built at start
descopeMcpBearerAuth(bearer) == dynamicMcpAuth(FALSE, bearer)

\* connectServer with the flag set when server.connect is called, before it
\* has settled
connectSettledFlagFirst(connected, ok) ==
    [serverConnected |-> TRUE, thrown |-> ~ok]

\* connectServer once server.connect has settled
connectSettled(connected, ok) ==
    [serverConnected |-> IF ok THEN TRUE ELSE connected, thrown |-> ~ok]

\* the catch block of POST /mcp; begun: what was sent before the error
postMcpCatch(headersSent, begun) ==
    IF ~headersSent THEN Reply(500, JSONRPC_INTERNAL, "Internal server error", "")
    ELSE begun

methodNotAllowed == Reply(405, JSONRPC_SERVER, "Method not allowed.", "")

\* GET /.well-known/oauth-authorization-server of express-mcp-server.ts once
\* loadConfig has settled
oauthAuthorizationServer(config) ==
    IF ~Truthy(config.projectId)
    THEN Reply(400, 0, "Project ID not configured. Please set it via the UI "
                       \o "configuration or DESCOPE_PROJECT_ID environment variable.", "")
    ELSE Reply(302, 0, "",
               toText(config.baseUrl) \o "/v1/apps/" \o toText(config.projectId)
                   \o "/.well-known/openid-configuration")

\* the URL the same route of the draft fetches
wellKnownUrl(envPid, envUrl) ==
    toText(Or(envUrl, Str("https://api.descope.com"))) \o "/v1/apps/" \o toText(envPid)
        \o "/.well-known/openid-configuration"

\* the route of the draft once its fetch has settled
wellKnownSettled(ok) ==
    IF ok THEN Reply(200, 0, "", "")
    ELSE Reply(500, JSONRPC_INTERNAL, "Internal server error", "")

\* the requests of the model; bearer: what the bearer middleware makes of the
\* Authorization header
Requests ==
    {[method |-> "POST", path |-> "/mcp", bearer |-> b] : b \in {"valid", "invalid"}}
    \cup {[method |-> "GET", path |-> "/mcp", bearer |-> "valid"],
          [method |-> "OPTIONS", path |-> "/mcp", bearer |-> "invalid"],
          [method |-> "GET", path |-> WELL_KNOWN, bearer |-> "invalid"]}

\* what the store may hold when the server starts
ServerBlobs == InitialBlobs \cup {Json([projectId |-> Str(""), baseUrl |-> Str("U1")])}

\* a request being served.  trail: the layers that ran for it; accepted: the
\* auth middleware called next(); connect: its call of server.connect;
\* handled: transport.handleRequest was invoked, handledConnected: the flag at
\* that moment; buildThrew: building the provider threw; projectId: the
\* projectId the well-known route resolved; upstream: the URL it fetched
NoTask ==
    [pc |-> "none", req |-> [method |-> "", path |-> "", bearer |-> ""], layer |-> 0,
     trail |-> << >>, accepted |-> FALSE, buildThrew |-> FALSE, connect |-> "none",
     handled |-> FALSE, handledConnected |-> FALSE, reply |-> NoReply,
     projectId |-> Undefined, upstream |-> ""]

\* the request goes to layer i, or to the 404 of express when there is none
atLayer(task, i) ==
    IF i = 0 THEN [task EXCEPT !.pc = "done", !.reply = Reply(404, 0, "Not Found", "")]
    ELSE [task EXCEPT !.pc = "layer", !.layer = i]

\* next()
nextLayer(task) ==
    atLayer(task, dispatch(Stack(deployed.handler), task.layer, task.req))

\* the layer of task t is to run, and it is fn
Runs(t, fn) ==
    /\ tasks[t].pc = "layer"
    /\ Stack(deployed.handler)[tasks[t].layer].fn = fn

ran(task, fn) == [task EXCEPT !.trail = Append(task.trail, fn)]

InitServer ==
    /\ deployed \in ServerDrafts
    /\ envProjectId \in EnvProjectIds
    /\ envBaseUrl \in EnvBaseUrls
    /\ blob \in IF deployed = ExpressDraft THEN ServerBlobs ELSE {NoBlob}
    /\ inMemoryConfig = NoBlob
    /\ blobsAvailable = TRUE
    /\ obs = NoObs
    /\ inv = Idle
    /\ calls = << >>
    /\ outcome = NoOutcome
    /\ tasks = [t \in TaskIds |-> NoTask]
    /\ serverConnected = FALSE
    /\ log = << >>

serverFrame ==
    UNCHANGED <<deployed, envProjectId, envBaseUrl, configVars, toolVars, log>>

\* a request arrives and is routed
Receive(t) ==
    /\ tasks[t].pc = "none"
    /\ \E req \in Requests :
         tasks' = [tasks EXCEPT ![t] =
                      atLayer([NoTask EXCEPT !.req = req],
                              dispatch(Stack(deployed.handler), 0, req))]
    /\ UNCHANGED serverConnected
    /\ serverFrame

\* app.options("*", cors()): the preflight is answered
Cors(t) ==
    /\ Runs(t, "cors")
    /\ tasks' = [tasks EXCEPT ![t] =
                    [ran(@, "cors") EXCEPT !.pc = "done", !.reply = Reply(204, 0, "", "")]]
    /\ UNCHANGED serverConnected
    /\ serverFrame

\* dynamicMcpAuth up to the await of loadConfig in createProvider
DynamicMcpAuth(t) ==
    /\ Runs(t, "dynamicMcpAuth")
    /\ tasks' = [tasks EXCEPT ![t] = [ran(@, "dynamicMcpAuth") EXCEPT !.pc = "authLoad"]]
    /\ UNCHANGED serverConnected
    /\ serverFrame

\* loadConfig has settled: the provider is built and the middleware runs
AuthSettles(t) ==
    /\ tasks[t].pc = "authLoad"
    /\ \E buildThrows \in BOOLEAN :
         LET r == dynamicMcpAuth(buildThrows, tasks[t].req.bearer)
         IN tasks' = [tasks EXCEPT ![t] =
                         IF r.next THEN nextLayer([@ EXCEPT !.accepted = TRUE])
                         ELSE [@ EXCEPT !.pc = "done", !.reply = r.reply,
                                        !.buildThrew = buildThrows]]
    /\ UNCHANGED serverConnected
    /\ serverFrame

\* the bearer middleware of the draft
BearerAuth(t) ==
    /\ Runs(t, "descopeMcpBearerAuth")
    /\ LET r == descopeMcpBearerAuth(tasks[t].req.bearer)
           task == ran(tasks[t], "descopeMcpBearerAuth")
       IN tasks' = [tasks EXCEPT ![t] =
                       IF r.next THEN nextLayer([task EXCEPT !.accepted = TRUE])
                       ELSE [task EXCEPT !.pc = "done", !.reply = r.reply]]
    /\ UNCHANGED serverConnected
    /\ serverFrame

\* POST /mcp up to its first await that waits: connectServer calls
\* server.connect when the flag is down, else transport.handleRequest is
\* invoked
PostMcp(t) ==
    /\ Runs(t, "postMcp")
    /\ tasks' = [tasks EXCEPT ![t] =
                    IF ~serverConnected
                    THEN [ran(@, "postMcp") EXCEPT !.pc = "connecting", !.connect = "inflight"]
                    ELSE [ran(@, "postMcp") EXCEPT !.pc = "handling", !.handled = TRUE,
                                                   !.handledConnected = serverConnected]]
    /\ UNCHANGED serverConnected
    /\ serverFrame

\* server.connect(transport) settles
ConnectSettles(t) ==
    /\ tasks[t].pc = "connecting"
    /\ \E ok \in BOOLEAN :
         LET r == connectSettled(serverConnected, ok)
         IN /\ serverConnected' = r.serverConnected
            /\ tasks' = [tasks EXCEPT ![t] =
                            IF r.thrown
                            THEN [@ EXCEPT !.pc = "done", !.connect = "failed",
                                           !.reply = postMcpCatch(FALSE, NoReply)]
                            ELSE [@ EXCEPT !.pc = "handling", !.connect = "ok",
                                           !.handled = TRUE,
                                           !.handledConnected = r.serverConnected]]
    /\ serverFrame

\* transport.handleRequest settles: it answered, or it threw before or after
\* the headers were sent
HandleSettles(t) ==
    /\ tasks[t].pc = "handling"
    /\ \E thrown \in BOOLEAN, headersSent \in BOOLEAN :
         tasks' = [tasks EXCEPT ![t] =
                      [@ EXCEPT !.pc = "done",
                                !.reply = IF thrown
                                          THEN postMcpCatch(headersSent, Reply(200, 0, "", ""))
                                          ELSE Reply(200, 0, "", "")]]
    /\ UNCHANGED serverConnected
    /\ serverFrame

\* GET and DELETE /mcp
MethodNotAllowed(t) ==
    /\ Runs(t, "methodNotAllowed")
    /\ tasks' = [tasks EXCEPT ![t] =
                    [ran(@, "methodNotAllowed") EXCEPT !.pc = "done",
                                                        !.reply = methodNotAllowed]]
    /\ UNCHANGED serverConnected
    /\ serverFrame

\* GET /.well-known/oauth-authorization-server up to its await: loadConfig in
\* express-mcp-server.ts, the fetch of the upstream document in the draft
WellKnown(t) ==
    /\ Runs(t, "oauthAuthorizationServer")
    /\ tasks' = [tasks EXCEPT ![t] =
                    IF deployed = ExpressDraft
                    THEN [ran(@, "oauthAuthorizationServer") EXCEPT !.pc = "wkLoad"]
                    ELSE [ran(@, "oauthAuthorizationServer") EXCEPT
                             !.pc = "wkFetch",
                             !.projectId = envProjectId,
                             !.upstream = wellKnownUrl(envProjectId, envBaseUrl)]]
    /\ UNCHANGED serverConnected
    /\ serverFrame

\* the await of the route settles
WellKnownSettles(t) ==
    /\ tasks[t].pc \in {"wkLoad", "wkFetch"}
    /\ \E getThrows \in BOOLEAN, ok \in BOOLEAN :
         LET config == loadConfigExpress(blob, getThrows, envProjectId, envBaseUrl)
         IN tasks' = [tasks EXCEPT ![t] =
                         IF tasks[t].pc = "wkLoad"
                         THEN [@ EXCEPT !.pc = "done", !.projectId = config.projectId,
                                        !.reply = oauthAuthorizationServer(config)]
                         ELSE [@ EXCEPT !.pc = "done", !.reply = wellKnownSettled(ok)]]
    /\ UNCHANGED serverConnected
    /\ serverFrame

NextServer ==
    \/ \E t \in TaskIds : Receive(t)
    \/ \E t \in TaskIds : Cors(t)
    \/ \E t \in TaskIds : DynamicMcpAuth(t)
    \/ \E t \in TaskIds : AuthSettles(t)
    \/ \E t \in TaskIds : BearerAuth(t)
    \/ \E t \in TaskIds : PostMcp(t)
    \/ \E t \in TaskIds : ConnectSettles(t)
    \/ \E t \in TaskIds : HandleSettles(t)
    \/ \E t \in TaskIds : MethodNotAllowed(t)
    \/ \E t \in TaskIds : WellKnown(t)
    \/ \E t \in TaskIds : WellKnownSettles(t)

SpecServer == InitServer /\ [][NextServer]_vars

----------------------------------------------------------------------------
(* The store functions called concurrently: every await is a point where    *)
(* another call may run.  part_004: loadConfig / saveConfig; config-store.ts *)
(* and part_001: setDescopeConfig                                            *)

\* a call of a store function.  config: its argument; current: the store
\* content its read returned; returned, source: the configuration loadConfig
\* returned and where from; storage: the storage saveConfig reported
NoCall ==
    [pc |-> "none", op |-> "", config |-> EmptyObject, current |-> NoBlob,
     returned |-> EmptyObject, source |-> "", storage |-> ""]

\* the partial updates handed to setDescopeConfig
PartialConfigs ==
    {[projectId |-> Str("P2"), baseUrl |-> Absent],
     [projectId |-> Absent, baseUrl |-> Str("U1")],
     [projectId |-> Str("P3"), baseUrl |-> Str("U3")]}

\* the configurations handed to saveConfig by racing callers
RacingConfigs ==
    {[projectId |-> Str("P2"), baseUrl |-> Str("")],
     [projectId |-> Str(""), baseUrl |-> Str("U1")],
     [projectId |-> Str("P3"), baseUrl |-> Str("U3")]}

InitRace ==
    /\ deployed \in {FallbackDraft} \cup BlobDrafts
    /\ envProjectId \in EnvProjectIds
    /\ envBaseUrl \in EnvBaseUrls
    /\ blob \in {NoBlob, Json([projectId |-> Str("P1"), baseUrl |-> Absent])}
    /\ inMemoryConfig = NoBlob
    /\ blobsAvailable \in IF deployed = FallbackDraft THEN BOOLEAN ELSE {TRUE}
    /\ obs = NoObs
    /\ inv = Idle
    /\ calls = << >>
    /\ outcome = NoOutcome
    /\ tasks = [t \in TaskIds |-> NoCall]
    /\ serverConnected = FALSE
    /\ log = << >>

raceFrame == UNCHANGED <<deployed, envProjectId, envBaseUrl, obs, toolVars, serverConnected>>

\* saveConfig(config) is called and runs up to its await of configStore.set,
\* or to its end when the flag is down
SaveCall(t) ==
    /\ deployed = FallbackDraft
    /\ tasks[t].pc = "none"
    /\ \E config \in RacingConfigs :
         IF blobsAvailable
         THEN /\ tasks' = [tasks EXCEPT ![t] =
                              [NoCall EXCEPT !.pc = "setting", !.op = "saveConfig",
                                             !.config = config]]
              /\ UNCHANGED <<inMemoryConfig, log>>
         ELSE LET r == saveConfig(FALSE, blob, inMemoryConfig, config, "ok")
              IN /\ inMemoryConfig' = r.inMemoryConfig
                 /\ log' = Append(log, t)
                 /\ tasks' = [tasks EXCEPT ![t] =
                                 [NoCall EXCEPT !.pc = "done", !.op = "saveConfig",
                                                !.config = config,
                                                !.storage = r.result.storage]]
    /\ UNCHANGED <<blob, blobsAvailable>>
    /\ raceFrame

\* the store applies the write of configStore.set
StoreApplies(t) ==
    /\ tasks[t].pc = "setting"
    /\ blob' = saveConfig(TRUE, blob, inMemoryConfig, tasks[t].config, "ok").blob
    /\ tasks' = [tasks EXCEPT ![t].pc = "applied"]
    /\ UNCHANGED <<inMemoryConfig, blobsAvailable, log>>
    /\ raceFrame

\* the await of configStore.set resolves and saveConfig runs to its end
SaveSettles(t) ==
    /\ tasks[t].pc = "applied"
    /\ LET r == saveConfig(TRUE, blob, inMemoryConfig, tasks[t].config, "ok")
       IN /\ inMemoryConfig' = r.inMemoryConfig
          /\ tasks' = [tasks EXCEPT ![t].pc = "done", ![t].storage = r.result.storage]
    /\ log' = Append(log, t)
    /\ UNCHANGED <<blob, blobsAvailable>>
    /\ raceFrame

\* configStore.set throws, nothing written: the catch block and the fallback
SaveThrows(t) ==
    /\ tasks[t].pc = "setting"
    /\ LET r == saveConfig(TRUE, blob, inMemoryConfig, tasks[t].config, "other")
       IN /\ inMemoryConfig' = r.inMemoryConfig
          /\ blobsAvailable' = r.blobsAvailable
          /\ tasks' = [tasks EXCEPT ![t].pc = "done", ![t].storage = r.result.storage]
    /\ log' = Append(log, t)
    /\ UNCHANGED blob
    /\ raceFrame

\* loadConfig() is called and runs up to its await of configStore.get, or to
\* its end when the flag is down
LoadCall(t) ==
    /\ deployed = FallbackDraft
    /\ tasks[t].pc = "none"
    /\ IF blobsAvailable
       THEN tasks' = [tasks EXCEPT ![t] = [NoCall EXCEPT !.pc = "getting",
                                                        !.op = "loadConfig"]]
       ELSE LET r == loadConfig(FALSE, blob, inMemoryConfig, FALSE,
                                envProjectId, envBaseUrl)
            IN tasks' = [tasks EXCEPT ![t] =
                            [NoCall EXCEPT !.pc = "done", !.op = "loadConfig",
                                           !.returned = r.config, !.source = r.source]]
    /\ UNCHANGED <<blob, inMemoryConfig, blobsAvailable, log>>
    /\ raceFrame

\* the await of configStore.get settles and loadConfig runs to its end
LoadSettles(t) ==
    /\ tasks[t].pc = "getting"
    /\ \E getThrows \in BOOLEAN :
         LET r == loadConfig(TRUE, blob, inMemoryConfig, getThrows,
                             envProjectId, envBaseUrl)
         IN /\ blobsAvailable' = (blobsAvailable /\ r.blobsAvailable)
            /\ tasks' = [tasks EXCEPT ![t].pc = "done", ![t].current = blob,
                                      ![t].returned = r.config, ![t].source = r.source]
    /\ UNCHANGED <<blob, inMemoryConfig, log>>
    /\ raceFrame

\* setDescopeConfig(config) is called and runs up to the await in
\* getDescopeConfig
SetCall(t) ==
    /\ deployed \in BlobDrafts
    /\ tasks[t].pc = "none"
    /\ \E config \in PartialConfigs :
         tasks' = [tasks EXCEPT ![t] =
                      [NoCall EXCEPT !.pc = "reading", !.op = "setDescopeConfig",
                                     !.config = config]]
    /\ UNCHANGED <<blob, inMemoryConfig, blobsAvailable, log>>
    /\ raceFrame

\* store.get settles: the configuration is merged and store.set is called
ReadSettles(t) ==
    /\ tasks[t].pc = "reading"
    /\ tasks' = [tasks EXCEPT ![t].pc = "writing", ![t].current = blob]
    /\ UNCHANGED <<blob, inMemoryConfig, blobsAvailable, log>>
    /\ raceFrame

\* store.set settles: the merged configuration is in the store
WriteSettles(t) ==
    /\ tasks[t].pc = "writing"
    /\ blob' = IF deployed.store = "part_001"
               THEN setDescopeConfigQuiet(tasks[t].current, tasks[t].config, FALSE, "ok").blob
               ELSE setDescopeConfig(tasks[t].current, tasks[t].config, FALSE, "ok").blob
    /\ tasks' = [tasks EXCEPT ![t].pc = "done"]
    /\ UNCHANGED <<inMemoryConfig, blobsAvailable, log>>
    /\ raceFrame

NextRace ==
    \/ \E t \in TaskIds : SaveCall(t)
    \/ \E t \in TaskIds : StoreApplies(t)
    \/ \E t \in TaskIds : SaveSettles(t)
    \/ \E t \in TaskIds : SaveThrows(t)
    \/ \E t \in TaskIds : LoadCall(t)
    \/ \E t \in TaskIds : LoadSettles(t)
    \/ \E t \in TaskIds : SetCall(t)
    \/ \E t \in TaskIds : ReadSettles(t)
    \/ \E t \in TaskIds : WriteSettles(t)

SpecRace == InitRace /\ [][NextRace]_vars

----------------------------------------------------------------------------
(* Properties                                                               *)

\* the scope the specification requires of each tool
ScopeOf(tool) == IF tool = "read-repos" THEN "app:read" ELSE "app:write"

\* the tools built on the token-exchange pattern
ExchangeTools == {"read-repos", "create-gh-repo"}

LacksScope ==
    /\ inv.tool \in ExchangeTools
    /\ ~inv.authInfo.present \/ ScopeOf(inv.tool) \notin inv.authInfo.scopes

\* C1: an invocation whose caller lacks the required scope ('app:read' for
\* read-repos, 'app:write' for create-gh-repo) ends at once with the
\* insufficient-permissions error and has issued no network request.
C1_UnauthorizedBeforeNetwork ==
    LacksScope =>
        /\ inv.pc = "done"
        /\ outcome.kind = "thrown"
        /\ outcome.error = McpError("InvalidRequest",
               "Insufficient permissions: '" \o ScopeOf(inv.tool) \o "' scope required")
        /\ calls = << >>

\* a caller with a well-formed token and client id but only the other scope
C1_Witness ==
    /\ LacksScope
    /\ inv.tool = "read-repos"
    /\ inv.authInfo.scopes = {"app:write"}
    /\ getSubFromJwt(inv.authInfo.token).error = NoError
    /\ decodeClientId(inv.authInfo.clientId).error = NoError
    /\ outcome.kind = "thrown"

\* the last call was a resolve of the effective configuration
JustResolved == obs.resolved.via \in {"getters", "loadConfig", "getConfig"} /\ ~obs.stale

\* the persisted override the last resolve could read for field f
PersistedFor(f) ==
    IF deployed = FallbackDraft
    THEN IF obs.resolved.source = "blobs" THEN Prop(blob.obj, f)
         ELSE IF obs.resolved.source = "memory" THEN Prop(inMemoryConfig.obj, f)
         ELSE Undefined
    ELSE IF obs.resolved.threwP \/ blob.kind # "json" THEN Undefined
    ELSE Prop(blob.obj, f)

EnvFor(f) == IF f = "projectId" THEN envProjectId ELSE envBaseUrl

\* the hard-coded default of field f (the projectId has none in config-store.ts)
DefaultFor(f) ==
    IF f = "baseUrl" THEN Str("https://api.descope.com")
    ELSE IF deployed \in BlobDrafts THEN Undefined ELSE Str("")

\* C2: every field resolves on its own, persisted override first if present
\* and non-empty, else the process variable if set, else the default.
C2_Precedence ==
    JustResolved =>
        \A f \in Fields :
            obs.resolved.config[f] =
                IF Truthy(PersistedFor(f)) THEN PersistedFor(f)
                ELSE IF EnvFor(f) # Undefined THEN EnvFor(f)
                ELSE DefaultFor(f)

\* the last update was accepted and gave baseUrl alone, as a non-empty string
UpdatedBaseUrlOnly ==
    /\ obs.update.op \in {"handlePut", "postConfig"}
    /\ obs.update.response.statusCode = 200
    /\ obs.update.body.kind = "object"
    /\ obs.update.body.obj.projectId = Absent
    /\ obs.update.body.obj.baseUrl.k = "string"
    /\ obs.update.body.obj.baseUrl.s # ""

\* C3: a resolve that follows an accepted update({baseUrl: X}) returns baseUrl X
\* and the projectId the resolve before the update returned (the store reads of
\* both resolves succeeding).
C3_MergeNotReplace ==
    [][(/\ obs.stale /\ ~obs'.stale
        /\ obs'.update = obs.update
        /\ UpdatedBaseUrlOnly
        /\ obs.resolved.via = "before" /\ ~obs.resolved.threwP
        /\ obs'.resolved.via = "handleGet" /\ ~obs'.resolved.threwP)
       => /\ obs'.resolved.config.baseUrl = obs.update.body.obj.baseUrl
          /\ obs'.resolved.config.projectId = obs.resolved.config.projectId]_vars

\* the fields the last update gave as non-empty strings
GivenFields ==
    {f \in Fields : obs.update.body.obj[f].k = "string" /\ obs.update.body.obj[f].s # ""}

\* C4: after an update during which store.set threw, a resolve in the same
\* process returns the values of the update, and a resolve in a fresh process
\* returns the variable/default values.
C4_FailedSetStillVisible ==
    (/\ obs.update.op # "none"
     /\ obs.update.setFault # "ok"
     /\ obs.resolved.via \in {"handleGet", "getters", "loadConfig", "getConfig"}
     /\ ~obs.stale)
    => IF obs.fresh
       THEN \A f \in Fields :
               obs.resolved.config[f] =
                   IF EnvFor(f) # Undefined THEN EnvFor(f) ELSE DefaultFor(f)
       ELSE \A f \in GivenFields : obs.resolved.config[f] = obs.update.body.obj[f]

\* the store gave the last resolve nothing to use: the read threw, or the
\* blob is missing or does not parse
StoreUnusable ==
    /\ obs.resolved.via \in {"handleGet", "loadConfig", "getConfig"}
    /\ ~obs.stale
    /\ obs.resolved.threwP \/ blob.kind # "json"

\* a value as a JSON body shows it
Shown(v) == IF v = Undefined THEN Absent ELSE v

VariableOrDefault(f) ==
    {Shown(EnvFor(f)), Shown(DefaultFor(f))}

\* the value of field f in the configuration cached in the process, if any
Cached(f) ==
    IF deployed = FallbackDraft /\ inMemoryConfig.kind = "json"
    THEN {inMemoryConfig.obj[f]}
    ELSE {}

\* C5 as stated: whatever the store does, resolve returns a configuration
\* whose fields come from the process variables and the defaults.
C5_DegradesToVariableOrDefault ==
    StoreUnusable =>
        /\ obs.resolved.source # "thrown"
        /\ \A f \in Fields : Shown(obs.resolved.config[f]) \in VariableOrDefault(f)

\* C5, amended: whatever the store does, resolve returns a configuration and
\* does not throw; its fields come from the configuration cached in the
\* process, the process variables and the defaults.
C5_DegradesToCacheVariableOrDefault ==
    StoreUnusable =>
        /\ obs.resolved.source # "thrown"
        /\ \A f \in Fields :
              Shown(obs.resolved.config[f]) \in Cached(f) \cup VariableOrDefault(f)

\* the store read of loadConfig threw and the cached configuration was returned
C5_Witness ==
    /\ StoreUnusable
    /\ obs.resolved.via = "loadConfig"
    /\ obs.resolved.threwP
    /\ obs.resolved.source = "memory"
    /\ obs.resolved.config.projectId = Str("P2")

ResolveStep == HandleGet \/ GetEffective \/ LoadConfig \/ GetConfig

UpdateStep == HandlePut \/ SaveConfig \/ PostConfig

\* two resolves in a row, the store answering both reads alike, return the
\* same configuration
SameAnswer ==
    (/\ obs.resolved.via = obs'.resolved.via
     /\ ~obs.stale
     /\ obs'.resolved.threwP = obs.resolved.threwP)
    => obs'.resolved.config = obs.resolved.config

\* C6 as stated: a resolve changes no resolver state (store content, cached
\* configuration, blobs-available flag), two resolves in a row return the same
\* configuration, and only an update changes resolver state.
C6_ResolveChangesNothing ==
    [][/\ ResolveStep =>
            /\ UNCHANGED <<blob, inMemoryConfig, blobsAvailable>>
            /\ SameAnswer
       /\ <<blob, inMemoryConfig, blobsAvailable>>' # <<blob, inMemoryConfig, blobsAvailable>>
            => UpdateStep \/ Restart]_vars

\* C6, amended: a resolve changes neither the store content nor the cached
\* configuration; of the resolver state it can change the blobs-available flag
\* alone, from true to false and only when the store read threw or the blob
\* did not parse; two resolves in a row return the same configuration; only an
\* update changes the store content or the cached configuration.
C6_ResolveOnlyClearsFlag ==
    [][/\ ResolveStep =>
            /\ UNCHANGED <<blob, inMemoryConfig>>
            /\ \/ blobsAvailable' = blobsAvailable
               \/ /\ blobsAvailable /\ ~blobsAvailable'
                  /\ obs'.resolved.threwP \/ blob.kind = "garbage"
            /\ SameAnswer
       /\ <<blob, inMemoryConfig>>' # <<blob, inMemoryConfig>>
            => UpdateStep \/ Restart]_vars

\* a loadConfig whose store read threw has cleared the flag
C6_Witness ==
    /\ deployed = FallbackDraft
    /\ obs.resolved.via = "loadConfig"
    /\ ~obs.stale
    /\ obs.resolved.threwP
    /\ ~blobsAvailable

\* C7: after any sequence of accepted updates, the baseUrl a resolve returns
\* is a non-empty string.
C7_BaseUrlNonEmpty ==
    obs.resolved.via \in {"handleGet", "getters", "loadConfig", "getConfig"}
        => /\ obs.resolved.config.baseUrl.k = "string"
           /\ obs.resolved.config.baseUrl.s # ""

\* C8: an update giving projectId or baseUrl a value that is not a string,
\* the falsy 0, false and null included, is answered 400 and writes nothing.
C8_RejectsNonStrings ==
    (/\ obs.update.op \in {"handlePut", "postConfig"}
     /\ obs.update.body.kind = "object"
     /\ \E f \in Fields : /\ obs.update.body.obj[f] # Absent
                          /\ obs.update.body.obj[f].k # "string")
    => /\ obs.update.response.statusCode = 400
       /\ ~obs.update.wrote

\* what the store held before a step, as an object
Persisted == IF blob.kind = "json" THEN blob.obj ELSE EmptyObject

\* C9: the record an update writes is the fields of the update over the
\* persisted record, and holds no value taken from a variable or a default
\* (the store read of the update succeeding).
C9_WritesPersistedMerge ==
    [][(HandlePut /\ obs'.update.wrote /\ ~obs'.update.readThrew)
       => blob'.obj = [f \in Fields |->
                          IF obs'.update.body.obj[f] # Absent
                          THEN obs'.update.body.obj[f] ELSE Persisted[f]]]_vars

\* what PUT /config answers a body that is not JSON
OtherFailure ==
    Outcome(handlePut(blob, InvalidBody, FALSE, NoFaults).response)

\* C10: an update during which store.set threw has an outcome of its own,
\* neither the one of a success nor the one of another failure.
C10_PersistenceUnavailableDistinct ==
    /\ (obs.update.op = "handlePut" /\ obs.update.setFault # "ok")
         => /\ obs.update.response.statusCode # 200
            /\ obs.update.response # OtherFailure
    /\ (obs.update.op = "saveConfig" /\ obs.update.setFault # "ok")
         => /\ obs.update.result.success
            /\ obs.update.result.storage # "netlify-blobs"

\* the client id "proj1:app1" in base64, and the two components of each
\* client id ("" where the decoded text has none)
GoodClientId == "cHJvajE6YXBwMQ=="

ClientIdPair(c) ==
    CASE c = "cHJvajE6YXBwMQ==" -> <<"proj1", "app1">>
      [] c = "OmFwcDE=" -> <<"", "app1">>
      [] c = "cHJvajE6" -> <<"proj1", "">>
      [] OTHER -> <<"proj1", "">>

\* the invocation went past the scope check
PastScope ==
    /\ inv.tool \in ExchangeTools
    /\ inv.authInfo.present
    /\ ScopeOf(inv.tool) \in inv.authInfo.scopes

\* the invocation reached the claim extraction
AtClaimExtraction ==
    /\ PastScope
    /\ deployed.handler = "create-server.ts" => inv.authInfo.clientId = GoodClientId

InvalidToken == McpError("InvalidRequest", "Invalid JWT format or missing sub claim")

\* C11: a token with fewer or more than three dot-separated segments makes
\* getSubFromJwt fail with the invalid-token error: no user id is returned,
\* the invocation ends with that error and no request is issued.
C11_SegmentsNotThree ==
    (AtClaimExtraction /\ Len(inv.authInfo.token) # 3) =>
        /\ getSubFromJwt(inv.authInfo.token) = [error |-> InvalidToken, sub |-> Undefined]
        /\ inv.pc = "done"
        /\ outcome = Thrown(InvalidToken)
        /\ calls = << >>

\* a token of four segments whose second segment holds a sub claim
C11_Witness ==
    /\ AtClaimExtraction
    /\ Len(inv.authInfo.token) = 4
    /\ inv.authInfo.token[2] = "eyJzdWIiOiJ1c2VyLTEifQ"
    /\ outcome = Thrown(InvalidToken)

\* the sub claim in the JSON text that the second segment encodes ("" where
\* the text is no JSON or has no sub member)
SubClaim(segment) ==
    CASE segment = "eyJzdWIiOiJ1c2VyLTEifQ" -> "user-1"
      [] segment = "eyJzdWIiOiJ1c2VyLTEyMyJ9" -> "user-123"
      [] OTHER -> ""

\* C12: a three-segment token whose decoded middle segment has no sub field
\* makes getSubFromJwt fail with the invalid-token error; when getSubFromJwt
\* returns, it returns the sub claim of the decoded middle segment (the user
\* id sent to the token exchange).
C12_SubClaim ==
    (AtClaimExtraction /\ Len(inv.authInfo.token) = 3) =>
        IF SubClaim(inv.authInfo.token[2]) = ""
        THEN /\ getSubFromJwt(inv.authInfo.token).error = InvalidToken
             /\ inv.pc = "done"
             /\ outcome = Thrown(InvalidToken)
             /\ calls = << >>
        ELSE /\ getSubFromJwt(inv.authInfo.token) =
                    [error |-> NoError, sub |-> Str(SubClaim(inv.authInfo.token[2]))]
             /\ calls # << >>
             /\ calls[1].userId = SubClaim(inv.authInfo.token[2])

\* a three-segment token whose payload is {"name":"x"}
C12_Witness ==
    /\ AtClaimExtraction
    /\ Len(inv.authInfo.token) = 3
    /\ inv.authInfo.token[2] = "eyJuYW1lIjoieCJ9"
    /\ outcome = Thrown(InvalidToken)

InvalidClientId == McpError("InvalidRequest", "Invalid client ID format")

\* C13: decodeClientId fails with the invalid-client-id error when the
\* projectId or the appId of the decoded "projectId:appId" is empty (a text
\* without colon included), and the invocation ends there; when it succeeds
\* it returns the two components, both non-empty.
C13_ClientIdPair ==
    (PastScope /\ deployed.handler = "create-server.ts") =>
        LET pair == ClientIdPair(inv.authInfo.clientId)
        IN IF pair[1] = "" \/ pair[2] = ""
           THEN /\ decodeClientId(inv.authInfo.clientId).error = InvalidClientId
                /\ inv.pc = "done"
                /\ outcome = Thrown(InvalidClientId)
                /\ calls = << >>
           ELSE /\ decodeClientId(inv.authInfo.clientId) =
                       [error |-> NoError, projectId |-> pair[1], appId |-> pair[2]]
                /\ outcome # Thrown(InvalidClientId)

\* a client id that decodes to "proj1:", the appId empty
C13_Witness ==
    /\ PastScope
    /\ deployed.handler = "create-server.ts"
    /\ inv.authInfo.clientId = "cHJvajE6"
    /\ outcome = Thrown(InvalidClientId)

\* a response was received and its status is outside 200-299
Received(response) == response.status # 0

Is2xx(response) == response.status >= 200 /\ response.status <= 299

\* C14: a non-2xx answer of the token-exchange endpoint ends the invocation
\* with the exchange-failed error, which carries the status code and the
\* status text of the answer.
C14_ExchangeFailed ==
    (Received(inv.response) /\ ~Is2xx(inv.response)) =>
        /\ inv.pc = "done"
        /\ outcome = Thrown(McpError("InternalError",
               "Failed to fetch outbound token: " \o ToString(inv.response.status)
                   \o " " \o inv.response.statusText))

\* the token exchange answered 401 Unauthorized
C14_Witness ==
    /\ inv.response.status = 401
    /\ inv.response.statusText = "Unauthorized"
    /\ outcome.kind = "thrown"
    /\ outcome.error.message = "Failed to fetch outbound token: 401 Unauthorized"

ExchangeEndpoint == "https://asaf.descope.team/v1/mgmt/outbound/app/user/token/latest"

\* the order of the steps, as the requests issued so far show it
StepsInOrder ==
    /\ Len(calls) <= 2
    /\ (calls # << >> /\ inv.tool # "get-forecast") =>
          /\ AtClaimExtraction
          /\ Len(inv.authInfo.token) = 3
          /\ SubClaim(inv.authInfo.token[2]) # ""
          /\ calls[1].url = ExchangeEndpoint
    /\ (Len(calls) = 2 /\ inv.tool # "get-forecast") =>
          /\ Is2xx(inv.response)
          /\ calls[2].url # ExchangeEndpoint
    /\ (~Received(inv.response) /\ inv.tool # "get-forecast") =>
          Len(calls) <= 1 /\ ~Received(inv.githubResponse)
    /\ (inv.pc = "done" /\ outcome.kind = "thrown" /\ ~Received(inv.githubResponse)) =>
          Len(calls) = IF Received(inv.response) THEN 1 ELSE 0

\* a step issues one request at most, after those issued before, and once the
\* invocation has ended nothing of it changes
OneRequestAtATime ==
    /\ calls' # calls =>
          /\ Len(calls') = Len(calls) + 1
          /\ SubSeq(calls', 1, Len(calls)) = calls
    /\ inv.pc = "done" => UNCHANGED <<inv, calls, outcome>>

\* C15: within an invocation the token-exchange request is issued only after
\* the scope check and the claim extraction succeeded, the downstream request
\* only after a 2xx token exchange, each request once at most, and a failure
\* at a step ends the invocation with no later step.
C15_OrderedSingleShot == [](StepsInOrder) /\ [][OneRequestAtATime]_vars

\* an invocation that went through both requests and returned a result
C15_Witness ==
    /\ inv.pc = "done"
    /\ Len(calls) = 2
    /\ outcome.kind = "result"

\* C16: when the token exchange answers { token: { accessToken: T } }, the
\* downstream request of the invocation carries Authorization "Bearer T".
C16_BearerFromTokenAccessToken ==
    (/\ Received(inv.response) /\ Is2xx(inv.response)
     /\ inv.response.body.token.k = "string")
    => /\ Len(calls) = 2
       /\ calls[2].authorization = "Bearer " \o inv.response.body.token.s

\* the base URL of the effective configuration of the process of the tools:
\* nothing persisted, so the variable if set, else the default
EffectiveBaseUrl ==
    IF envBaseUrl # Undefined THEN envBaseUrl.s ELSE "https://api.descope.com"

\* C17: the token-exchange request is addressed to the base URL of the
\* effective configuration.
C17_ExchangeAtConfiguredBaseUrl ==
    (calls # << >> /\ inv.tool \in ExchangeTools) =>
        calls[1].url = EffectiveBaseUrl \o "/v1/mgmt/outbound/app/user/token/latest"

\* read-repos got its answer from GitHub
ReposAnswered ==
    /\ inv.pc = "done"
    /\ inv.tool = "read-repos"
    /\ Received(inv.githubResponse)

\* C18: when GitHub answers the empty array, read-repos returns one text that
\* says no repositories were found and names the user.
C18_NoResultsMessage ==
    (/\ ReposAnswered /\ Is2xx(inv.githubResponse)
     /\ inv.githubResponse.body.kind = "array"
     /\ inv.githubResponse.body.repos = << >>)
    => /\ outcome.kind = "result"
       /\ ~outcome.isError
       /\ outcome.text = "No repositories found for user " \o inv.param \o "."

\* GitHub answered [] to the request for the repositories of bob
C18_Witness ==
    /\ ReposAnswered /\ Is2xx(inv.githubResponse)
    /\ inv.githubResponse.body.kind = "array"
    /\ inv.githubResponse.body.repos = << >>
    /\ inv.param = "bob"
    /\ outcome.text = "No repositories found for user bob."

UnexpectedFormat == McpError("InternalError", "Unexpected response format from GitHub API")

\* C19: when GitHub answers a JSON value that is no array, read-repos fails
\* with the unexpected-format error and returns no content.
C19_UnexpectedFormat ==
    (/\ ReposAnswered /\ Is2xx(inv.githubResponse)
     /\ inv.githubResponse.body.kind = "object")
    => outcome = Thrown(UnexpectedFormat)

\* GitHub answered a JSON object to read-repos
C19_Witness ==
    /\ ReposAnswered /\ Is2xx(inv.githubResponse)
    /\ inv.githubResponse.body.kind = "object"
    /\ inv.githubResponse.body.name = Undefined
    /\ outcome.kind = "thrown"

\* C20: a non-2xx answer of the downstream API makes the invocation fail with
\* the downstream-failed error whatever the body is, a JSON array included;
\* no content is returned, in read-repos as in create-gh-repo.
C20_DownstreamFailed ==
    (/\ inv.pc = "done"
     /\ Received(inv.githubResponse) /\ ~Is2xx(inv.githubResponse))
    => /\ outcome.kind = "thrown"
       /\ outcome.error.thrown = "McpError"
       /\ outcome.error.code = "InternalError"
       /\ outcome.error # UnexpectedFormat

\* the step at which an invocation that is over has failed, told from its
\* inputs and from the answers it received
FailurePoint ==
    IF inv.tool \notin ExchangeTools THEN "none"
    ELSE IF LacksScope THEN "scope"
    ELSE IF deployed.handler = "create-server.ts"
            /\ ClientIdPair(inv.authInfo.clientId) # <<"proj1", "app1">>
    THEN "clientId"
    ELSE IF getSubFromJwt(inv.authInfo.token).error # NoError THEN "token"
    ELSE IF Received(inv.response) /\ ~Is2xx(inv.response) THEN "exchange"
    ELSE IF Received(inv.githubResponse) /\ ~Is2xx(inv.githubResponse) THEN "downstream"
    ELSE IF Received(inv.githubResponse) /\ inv.tool = "read-repos"
            /\ inv.githubResponse.body.kind # "array"
    THEN "format"
    ELSE "none"

FailurePoints == {"scope", "clientId", "token", "exchange", "downstream", "format"}

\* the error conditions the handlers raise at a failure point
ErrorsAt(point) ==
    CASE point = "scope" ->
             {McpError("InvalidRequest",
                       "Insufficient permissions: '" \o sc \o "' scope required") :
                 sc \in {"app:read", "app:write"}}
      [] point = "clientId" -> {InvalidClientId}
      [] point = "token" -> {InvalidToken}
      [] point = "exchange" ->
             {McpError("InternalError",
                       "Failed to fetch outbound token: " \o ToString(r.status)
                           \o " " \o r.statusText) : r \in ExchangeResponses}
      [] point = "downstream" ->
             {McpError("InternalError",
                       "Failed to create repository: " \o ToString(r.status)
                           \o " " \o r.statusText) : r \in GithubResponses}
      [] OTHER -> {UnexpectedFormat}

\* C21: an invocation that failed at one of the six failure points (scope,
\* client id, token, token exchange, downstream call, response shape) ends
\* with a named error (an McpError, no error of the runtime) which is one of
\* that point, and which no other failure point raises.
C21_DistinctNamedErrors ==
    (inv.pc = "done" /\ FailurePoint # "none") =>
        /\ outcome.kind = "thrown"
        /\ outcome.error.thrown = "McpError"
        /\ \A q \in FailurePoints \ {FailurePoint} : outcome.error \notin ErrorsAt(q)

\* a step of the invocation that is over has failed: one of the token-exchange
\* pattern up to the downstream request, the scope check of echo, a request
\* of get-forecast (rejected, answered outside 200-299, or with no JSON)
StepFailed ==
    \/ FailurePoint \in {"scope", "clientId", "token", "exchange", "downstream"}
    \/ inv.tool = "echo" /\ "app:custom" \notin inv.authInfo.scopes
    \/ /\ inv.tool = "get-forecast"
       /\ \E i \in 1..Len(inv.nwsResponses) : makeNWSRequest(inv.nwsResponses[i]) = NoData

\* C22: when a step of an invocation failed, what the handler delivers is an
\* error, thrown or a result marked isError, and no plain result.
C22_FailureIsError ==
    (inv.pc = "done" /\ StepFailed) => (outcome.kind = "thrown" \/ outcome.isError)

\* a step of the process that runs with the flag down (Restart starts another
\* process)
FlagDownStep == deployed = FallbackDraft /\ ~blobsAvailable /\ ~Restart

\* C27: in the in-memory-fallback store, once blobsAvailable is false it stays
\* false in that process; from then on no call writes the store or reads it
\* (loadConfig returns what it returns with no store at all), and saveConfig
\* reports storage 'in-memory' with success true.
C27_FlagStaysDown ==
    [][FlagDownStep =>
          /\ ~blobsAvailable'
          /\ blob' = blob
          /\ LoadConfig =>
                /\ obs'.resolved.source # "blobs"
                /\ ~obs'.resolved.threwP
                /\ obs'.resolved.config =
                      loadConfig(FALSE, NoBlob, inMemoryConfig, FALSE,
                                 envProjectId, envBaseUrl).config
          /\ SaveConfig =>
                /\ obs'.update.result = [storage |-> "in-memory", success |-> TRUE]
                /\ ~obs'.update.wrote]_vars

\* the flag is down, the store holds a configuration, and a saveConfig of
\* another configuration went to memory only
C27_Witness ==
    /\ deployed = FallbackDraft
    /\ ~blobsAvailable
    /\ blob.kind = "json"
    /\ obs.update.op = "saveConfig"
    /\ obs.update.setFault = "ok"
    /\ obs.update.result = [storage |-> "in-memory", success |-> TRUE]
    /\ inMemoryConfig.kind = "json"
    /\ Json(JSONStringify(inMemoryConfig.obj)) # blob

AuthLayers == {"dynamicMcpAuth", "descopeMcpBearerAuth"}
McpHandlers == {"postMcp", "methodNotAllowed"}

InTrail(task, fns) == \E i \in 1..Len(task.trail) : task.trail[i] \in fns

AuthConfigurationError ==
    Reply(500, JSONRPC_INTERNAL, "Authentication configuration error", "")

\* C24: a route handler of /mcp runs for a request only after the bearer-auth
\* middleware ran for it and accepted it; server.connect is called and
\* transport.handleRequest invoked for accepted requests only; a request
\* whose provider could not be built is answered 500 and reaches no handler.
C24_AuthBeforeHandlers ==
    \A t \in TaskIds :
        LET task == tasks[t]
        IN /\ InTrail(task, McpHandlers) =>
                 /\ task.trail[1] \in AuthLayers
                 /\ task.accepted
                 /\ task.req.bearer = "valid"
           /\ (task.connect # "none" \/ task.handled) =>
                 task.accepted /\ InTrail(task, {"postMcp"})
           /\ task.buildThrew =>
                 /\ task.pc = "done"
                 /\ task.reply = AuthConfigurationError
                 /\ ~InTrail(task, McpHandlers)
                 /\ task.connect = "none" /\ ~task.handled
           /\ (task.req.path = "/mcp" /\ task.req.bearer # "valid") =>
                 ~InTrail(task, McpHandlers)

\* one request was handled by the transport, the other was stopped because
\* the provider could not be built
C24_Witness ==
    \E t, u \in TaskIds :
        /\ tasks[t].handled /\ tasks[t].accepted /\ tasks[t].pc = "done"
        /\ tasks[u].buildThrew /\ tasks[u].reply.status = 500

\* C25: among the requests served by one process at most one has called
\* server.connect(transport) with the call in flight or successful.
C25_ConnectCalledOnce ==
    Cardinality({t \in TaskIds : tasks[t].connect \in {"inflight", "ok"}}) <= 1

InternalServerError == Reply(500, JSONRPC_INTERNAL, "Internal server error", "")

\* a step in which the server.connect of request t throws
ConnectThrows(t) == ConnectSettles(t) /\ tasks'[t].connect = "failed"

\* C26: transport.handleRequest is invoked only with serverConnected true,
\* the flag never goes back to false, a server.connect that throws leaves
\* the flag as it is and its request is answered 500 with JSON-RPC code
\* -32603 without transport.handleRequest, and a POST /mcp that finds the
\* flag down calls server.connect (again).
C26_HandleOnlyConnected ==
    /\ [](\A t \in TaskIds : tasks[t].handled =>
              tasks[t].handledConnected /\ serverConnected)
    /\ [][/\ serverConnected => serverConnected'
          /\ \A t \in TaskIds :
               /\ ConnectThrows(t) =>
                     /\ serverConnected' = serverConnected
                     /\ tasks'[t].reply = InternalServerError
                     /\ tasks'[t].pc = "done" /\ ~tasks'[t].handled
               /\ (PostMcp(t) /\ ~serverConnected) => tasks'[t].connect = "inflight"
               /\ (HandleSettles(t) /\ tasks'[t].reply.status = 500) =>
                     tasks'[t].reply = InternalServerError]_vars

\* the connect of one request threw and left the flag down; the other request
\* connected and was handled
C26_Witness ==
    \E t, u \in TaskIds :
        /\ tasks[t].connect = "failed" /\ tasks[t].reply = InternalServerError
        /\ tasks[u].connect = "ok" /\ tasks[u].handled
        /\ serverConnected

OpenIdConfiguration(baseUrl, projectId) ==
    baseUrl \o "/v1/apps/" \o projectId \o "/.well-known/openid-configuration"

\* the base URL the route redirects to: the one stored, the variable, the
\* default
ResolvedBaseUrl ==
    IF blob.kind = "json" /\ Truthy(blob.obj.baseUrl) THEN {blob.obj.baseUrl.s}
       \cup {toText(Or(envBaseUrl, Str("https://api.descope.com")))}
    ELSE {toText(Or(envBaseUrl, Str("https://api.descope.com")))}

\* C30: GET /.well-known/oauth-authorization-server answers 302 only with a
\* non-empty resolved projectId, and then to
\* <baseUrl>/v1/apps/<projectId>/.well-known/openid-configuration; with an
\* empty one it answers 400 and no upstream URL is fetched.
C30_NoRedirectWithoutProjectId ==
    \A t \in TaskIds :
        LET task == tasks[t]
        IN (task.pc = "done" /\ task.req.path = WELL_KNOWN) =>
              /\ task.reply.status = 302 =>
                    /\ Truthy(task.projectId)
                    /\ \E b \in ResolvedBaseUrl :
                          task.reply.location = OpenIdConfiguration(b, task.projectId.s)
              /\ ~Truthy(task.projectId) =>
                    task.reply.status = 400 /\ task.upstream = ""

AllReturned == \A t \in TaskIds : tasks[t].pc = "done"

\* a call of loadConfig that finds the flag down
ResolvesFromCache(t) == LoadCall(t) /\ ~blobsAvailable

\* C23: on the in-process fallback cache a resolve is over in the step of its
\* call, whatever the updates in flight, and returns the initial
\* configuration or the one a single update assigned; once all the calls
\* have returned the cache holds the configuration of the update that
\* assigned last, whole.
C23_LastWriterWins ==
    /\ [](\A t \in TaskIds :
            /\ (deployed = FallbackDraft /\ tasks[t].pc = "none") => ENABLED LoadCall(t)
            /\ (tasks[t].op = "loadConfig" /\ tasks[t].pc = "done"
                /\ tasks[t].source # "blobs") =>
                  \/ tasks[t].returned = fromEnv(envProjectId, envBaseUrl)
                  \/ \E i \in 1..Len(log) :
                        tasks[t].returned =
                            withFallbacks(tasks[log[i]].config, envProjectId, envBaseUrl))
    /\ []((AllReturned /\ log # << >>) =>
            inMemoryConfig = Json(tasks[log[Len(log)]].config))
    /\ [][\A t \in TaskIds : ResolvesFromCache(t) => tasks'[t].pc = "done"]_vars

\* two updates raced: the first to assign was the one whose write threw, the
\* second, called while the flag was up, assigned after its write had
\* succeeded; the cache holds its configuration, which differs in both fields
C23_Witness ==
    /\ AllReturned
    /\ Len(log) = 2
    /\ ~blobsAvailable
    /\ tasks[log[1]].storage = "in-memory"
    /\ tasks[log[2]].storage = "netlify-blobs"
    /\ tasks[log[1]].config.projectId # tasks[log[2]].config.projectId
    /\ tasks[log[1]].config.baseUrl # tasks[log[2]].config.baseUrl
    /\ inMemoryConfig = Json(tasks[log[2]].config)

\* C28: once all the saveConfig calls have returned, their writes to the
\* store all successful, inMemoryConfig holds the configuration the store
\* holds.
C28_BackupEqualsStore ==
    (/\ deployed = FallbackDraft
     /\ AllReturned
     /\ \A t \in TaskIds : tasks[t].op = "saveConfig" /\ tasks[t].storage = "netlify-blobs")
    => /\ inMemoryConfig.kind = "json"
       /\ blob = Json(JSONStringify(inMemoryConfig.obj))

\* the store content after update c1 then update c2, from content b
Serial(b, c1, c2) ==
    setDescopeConfig(setDescopeConfig(b, c1, FALSE, "ok").blob, c2, FALSE, "ok").blob

\* C29: once two concurrent setDescopeConfig calls have finished, the store
\* holds what the two updates give when applied one after the other in some
\* order, from what the first of them read.
C29_SerialOutcome ==
    (deployed \in BlobDrafts /\ AllReturned) =>
        \E t, u \in TaskIds :
            /\ t # u
            /\ blob = Serial(tasks[t].current, tasks[t].config, tasks[u].config)

====
